---- MODULE Spec2Model ----
(***************************************************************************)
(* Model of the sensor timing simulator of camera-sensor-viz               *)
(* (src/src/utils/sensor-timing/csvParser.ts, which holds csvParser.ts,    *)
(* simulator.ts and types.ts one after the other).                         *)
(*                                                                         *)
(* JavaScript numbers are modelled as exact rationals extended with the    *)
(* IEEE special values +Infinity, -Infinity and NaN, and with `undefined`  *)
(* for optional fields.  Negative zero is not modelled: every input set    *)
(* below is non-negative wherever the value can reach a divisor.  Where a  *)
(* property speaks of the exact double a computation returns, the same     *)
(* computation is also carried out in IEEE-754 binary64 (timing64).        *)
(***************************************************************************)
EXTENDS Integers, Sequences, FiniteSets, TLC

VARIABLES pc, params, timing, timing64, numFrames, schedule, time, height, rowState,
          sweepFn, range, cursor, results, range64, cursor64,
          simulation, isPlaying, playbackSpeed, currentTime, mounted,
          timeRef, initializedRef, updateVisualizationRef, animationFrameRef,
          animCleanupSet, appRef, runs, rafQueue, resolverCalled, timeUpdate,
          csvLines, modes

\* the range and loop variable of a sweep as doubles
sweep64Vars == <<range64, cursor64>>

\* the arguments, loop variable and result list of a sweep
sweepVars == <<sweepFn, range, cursor, results, sweep64Vars>>

\* the state of SensorVizPage that SensorVisualization receives as props
\* (simulation, isPlaying, playbackSpeed) or feeds (currentTime)
propVars == <<simulation, isPlaying, playbackSpeed, currentTime>>

\* the state of SensorVisualization: whether it is mounted, its refs, the
\* runs of its initialisation effect (index = run, each with its PIXI
\* application), the animation-frame callbacks waiting to run, and what the
\* latest step passed to getRowStateAtTime and to onTimeUpdate
vizVars == <<mounted, timeRef, initializedRef, updateVisualizationRef,
             animationFrameRef, animCleanupSet, appRef, runs, rafQueue,
             resolverCalled, timeUpdate>>

\* the CSV text handed to parseImx258Csv by the page's load effect, as the
\* sequence of its lines, and the modes the page keeps from it
csvVars == <<csvLines, modes>>

pageVars == <<propVars, vizVars, csvVars>>

vars == <<pc, params, timing, timing64, numFrames, schedule, time, height, rowState,
          sweepVars, pageVars>>

----------------------------------------------------------------------------
(* JavaScript number arithmetic                                            *)

Abs(i) == IF i < 0 THEN -i ELSE i

RECURSIVE GCD(_, _)
GCD(a, b) ==
  IF b = 0 THEN a
  ELSE CHOOSE g \in { GCD(b, r) : r \in {a % b} } : TRUE

NaN == [k |-> "nan", n |-> 0, d |-> 1]

PosInf == [k |-> "inf", n |-> 1, d |-> 1]

NegInf == [k |-> "inf", n |-> -1, d |-> 1]

Undefined == [k |-> "undef", n |-> 0, d |-> 1]

\* the finite number n/d (d > 0), in lowest terms
Q(n, d) ==
  LET g == GCD(Abs(n), d)
  IN  IF n = 0 THEN [k |-> "fin", n |-> 0, d |-> 1]
      ELSE [k |-> "fin", n |-> n \div g, d |-> d \div g]

Int2Num(i) == Q(i, 1)

Zero == Int2Num(0)

IsNaN(x) == x.k \in {"nan", "undef"}

IsFin(x) == x.k = "fin"

IsZero(x) == x.k = "fin" /\ x.n = 0

Sign(x) == IF x.n > 0 THEN 1 ELSE IF x.n < 0 THEN -1 ELSE 0

InfOfSign(s) == IF s > 0 THEN PosInf ELSE NegInf

\* a * b
NumMul(a, b) ==
  IF IsNaN(a) \/ IsNaN(b) THEN NaN
  ELSE IF ~IsFin(a) \/ ~IsFin(b)
       THEN IF Sign(a) * Sign(b) = 0 THEN NaN ELSE InfOfSign(Sign(a) * Sign(b))
       ELSE LET g1 == GCD(Abs(a.n), b.d)
                g2 == GCD(Abs(b.n), a.d)
            IN  IF a.n = 0 \/ b.n = 0 THEN Zero
                ELSE Q((a.n \div g1) * (b.n \div g2), (a.d \div g2) * (b.d \div g1))

\* a / b
NumDiv(a, b) ==
  IF IsNaN(a) \/ IsNaN(b) THEN NaN
  ELSE IF ~IsFin(a) THEN (IF ~IsFin(b) THEN NaN
                          ELSE InfOfSign(Sign(a) * (IF Sign(b) < 0 THEN -1 ELSE 1)))
  ELSE IF ~IsFin(b) THEN Zero
  ELSE IF b.n = 0 THEN (IF a.n = 0 THEN NaN ELSE InfOfSign(Sign(a)))
  ELSE NumMul(a, [k |-> "fin", n |-> Sign(b) * b.d, d |-> Abs(b.n)])

\* a + b
NumAdd(a, b) ==
  IF IsNaN(a) \/ IsNaN(b) THEN NaN
  ELSE IF ~IsFin(a) THEN (IF ~IsFin(b) /\ Sign(a) # Sign(b) THEN NaN ELSE a)
  ELSE IF ~IsFin(b) THEN b
  ELSE LET g == GCD(a.d, b.d)
       IN  Q(a.n * (b.d \div g) + b.n * (a.d \div g), (a.d \div g) * b.d)

NumNeg(a) == IF IsNaN(a) THEN NaN ELSE [a EXCEPT !.n = -a.n]

\* a - b
NumSub(a, b) == NumAdd(a, NumNeg(b))

\* a < b ; false as soon as one side is NaN
NumLt(a, b) ==
  IF IsNaN(a) \/ IsNaN(b) THEN FALSE
  ELSE IF ~IsFin(a) THEN Sign(a) < 0 /\ ~(~IsFin(b) /\ Sign(b) < 0)
  ELSE IF ~IsFin(b) THEN Sign(b) > 0
  ELSE LET g == GCD(a.d, b.d)
       IN  a.n * (b.d \div g) < b.n * (a.d \div g)

\* a === b on numbers ; false as soon as one side is NaN
NumEq(a, b) == ~IsNaN(a) /\ ~IsNaN(b) /\ a = b

NumGt(a, b) == NumLt(b, a)

NumLe(a, b) == NumLt(a, b) \/ NumEq(a, b)

NumGe(a, b) == NumLe(b, a)

\* a % b : the remainder of the truncated division, with the sign of a
JsRem(a, b) ==
  IF IsNaN(a) \/ IsNaN(b) \/ ~IsFin(a) \/ IsZero(b) THEN NaN
  ELSE IF ~IsFin(b) THEN a
  ELSE LET g  == GCD(a.d, b.d)
           an == Abs(a.n) * (b.d \div g)
           bn == Abs(b.n) * (a.d \div g)
       IN  Q(Sign(a) * (an % bn), (a.d \div g) * b.d)

\* Math.min over the first two arguments only
JsMin_firstTwo(a, b, c) ==
  IF IsNaN(a) \/ IsNaN(b) THEN NaN
  ELSE IF NumLt(b, a) THEN b ELSE a

\* Math.min(a, b, c)
JsMin(a, b, c) ==
  IF IsNaN(a) \/ IsNaN(b) \/ IsNaN(c) THEN NaN
  ELSE LET ab == IF NumLt(b, a) THEN b ELSE a
       IN  IF NumLt(c, ab) THEN c ELSE ab

\* ToBoolean on a number or undefined
Truthy(x) == ~IsNaN(x) /\ ~IsZero(x)

\* x || y
OrElse(x, y) == IF Truthy(x) THEN x ELSE y

\* destructuring default:  { f = dflt } = obj
Default(x, dflt) == IF x = Undefined THEN dflt ELSE x

----------------------------------------------------------------------------
(* IEEE-754 binary64 rounding of *, / on finite non-zero-divisor operands. *)
(* A natural number is a little-endian sequence of limbs in base 2^15 with *)
(* no high zero limb; a double is sgn * m * 2^e with m of exactly 53 bits, *)
(* or m = <<>> for zero.  Subnormals, overflow and -0 are out of range of  *)
(* the inputs used below.                                                  *)

LimbBits == 15

LimbBase == 32768

MantissaBits == 53

\* 2^k for k in 0..15
Pow2(k) ==
  <<1, 2, 4, 8, 16, 32, 64, 128, 256, 512, 1024, 2048, 4096, 8192, 16384, 32768>>[k + 1]

RECURSIVE BigNorm(_)
BigNorm(a) ==
  IF a # <<>> /\ a[Len(a)] = 0 THEN BigNorm(SubSeq(a, 1, Len(a) - 1)) ELSE a

RECURSIVE BigFromInt(_)
BigFromInt(i) ==
  IF i = 0 THEN <<>> ELSE <<i % LimbBase>> \o BigFromInt(i \div LimbBase)

Limb(a, i) == IF i >= 1 /\ i <= Len(a) THEN a[i] ELSE 0

RECURSIVE BigCmpFrom(_, _, _)
BigCmpFrom(a, b, i) ==
  IF i = 0 THEN 0
  ELSE IF a[i] < b[i] THEN -1
  ELSE IF a[i] > b[i] THEN 1
  ELSE BigCmpFrom(a, b, i - 1)

\* -1, 0 or 1 as a < b, a = b or a > b
BigCmp(a, b) ==
  IF Len(a) < Len(b) THEN -1
  ELSE IF Len(a) > Len(b) THEN 1
  ELSE BigCmpFrom(a, b, Len(a))

RECURSIVE BigAddFrom(_, _, _, _, _)
BigAddFrom(a, b, i, carry, acc) ==
  IF i > Len(a) /\ i > Len(b)
  THEN (IF carry = 0 THEN acc ELSE Append(acc, carry))
  ELSE LET t == Limb(a, i) + Limb(b, i) + carry
       IN  BigAddFrom(a, b, i + 1, t \div LimbBase, Append(acc, t % LimbBase))

BigAdd(a, b) == BigAddFrom(a, b, 1, 0, <<>>)

RECURSIVE BigSubFrom(_, _, _, _, _)
BigSubFrom(a, b, i, borrow, acc) ==
  IF i > Len(a) THEN BigNorm(acc)
  ELSE LET t == a[i] - Limb(b, i) - borrow
       IN  IF t < 0 THEN BigSubFrom(a, b, i + 1, 1, Append(acc, t + LimbBase))
           ELSE BigSubFrom(a, b, i + 1, 0, Append(acc, t))

\* a - b for a >= b
BigSub(a, b) == BigSubFrom(a, b, 1, 0, <<>>)

RECURSIVE BigMulLimbFrom(_, _, _, _, _)
BigMulLimbFrom(a, x, i, carry, acc) ==
  IF i > Len(a) THEN BigNorm(Append(acc, carry))
  ELSE LET t == a[i] * x + carry
       IN  BigMulLimbFrom(a, x, i + 1, t \div LimbBase, Append(acc, t % LimbBase))

\* a * x for one limb x
BigMulLimb(a, x) == BigMulLimbFrom(a, x, 1, 0, <<>>)

\* a * LimbBase^k
BigShiftLimbs(a, k) == IF a = <<>> THEN <<>> ELSE [i \in 1..k |-> 0] \o a

RECURSIVE BigMulFrom(_, _, _, _)
BigMulFrom(a, b, i, acc) ==
  IF i > Len(a) THEN acc
  ELSE BigMulFrom(a, b, i + 1,
                  BigAdd(acc, BigShiftLimbs(BigMulLimb(b, a[i]), i - 1)))

BigMul(a, b) == BigMulFrom(a, b, 1, <<>>)

RECURSIVE BitLenInt(_)
BitLenInt(i) == IF i = 0 THEN 0 ELSE 1 + BitLenInt(i \div 2)

BigBitLen(a) == IF a = <<>> THEN 0 ELSE LimbBits * (Len(a) - 1) + BitLenInt(a[Len(a)])

\* a * 2^k
BigShl(a, k) == BigShiftLimbs(BigMulLimb(a, Pow2(k % LimbBits)), k \div LimbBits)

\* floor(a / 2^k)
BigShr(a, k) ==
  LET q == k \div LimbBits
      r == k % LimbBits
  IN  BigNorm([i \in 1..(IF Len(a) > q THEN Len(a) - q ELSE 0) |->
                 (Limb(a, i + q) \div Pow2(r))
                 + (Limb(a, i + q + 1) % Pow2(r)) * Pow2(LimbBits - r)])

\* bit j of a (bit 0 is the least significant)
BigBit(a, j) == (Limb(a, (j \div LimbBits) + 1) \div Pow2(j % LimbBits)) % 2

\* a mod 2^k = 0
BigLowZero(a, k) ==
  /\ \A i \in 1..(k \div LimbBits) : Limb(a, i) = 0
  /\ Limb(a, (k \div LimbBits) + 1) % Pow2(k % LimbBits) = 0

F64Zero == [sgn |-> 1, m |-> <<>>, e |-> 0]

\* the double nearest to sgn * (n + f) * 2^e, ties to even, where 0 <= f < 1
\* and f # 0 iff sticky
F64Round(sgn, n, sticky, e) ==
  LET bl == BigBitLen(n)
      s  == bl - MantissaBits
  IN  IF n = <<>> THEN F64Zero
      ELSE IF s <= 0 THEN [sgn |-> sgn, m |-> BigShl(n, -s), e |-> e + s]
      ELSE LET m0   == BigShr(n, s)
               half == BigBit(n, s - 1) = 1
               rest == sticky \/ ~BigLowZero(n, s - 1)
               up   == half /\ (rest \/ BigBit(m0, 0) = 1)
               m1   == IF up THEN BigAdd(m0, <<1>>) ELSE m0
           IN  IF BigBitLen(m1) > MantissaBits
               THEN [sgn |-> sgn, m |-> BigShr(m1, 1), e |-> e + s + 1]
               ELSE [sgn |-> sgn, m |-> m1, e |-> e + s]

\* the double of an integer of magnitude below 2^31
F64FromInt(i) == F64Round(IF i < 0 THEN -1 ELSE 1, BigFromInt(Abs(i)), FALSE, 0)

\* x * y
F64Mul(x, y) ==
  IF x.m = <<>> \/ y.m = <<>> THEN F64Zero
  ELSE F64Round(x.sgn * y.sgn, BigMul(x.m, y.m), FALSE, x.e + y.e)

\* the largest digit d >= d0, built from the bits below `bit`, with d * b <= r
RECURSIVE BigDivDigit(_, _, _, _)
BigDivDigit(r, b, bit, d0) ==
  IF bit = 0 THEN d0
  ELSE LET d1 == d0 + Pow2(bit - 1)
       IN  IF BigCmp(BigMulLimb(b, d1), r) <= 0
           THEN BigDivDigit(r, b, bit - 1, d1)
           ELSE BigDivDigit(r, b, bit - 1, d0)

\* one step of the long division by b of a number s.r < b * LimbBase: its
\* quotient digit is appended to s.q and the remainder moves up one limb
BigDivStep(s, b) ==
  LET d == BigDivDigit(s.r, b, LimbBits, 0)
  IN  [q |-> BigAdd(BigShiftLimbs(s.q, 1), BigFromInt(d)),
       r |-> BigShiftLimbs(BigSub(s.r, BigMulLimb(b, d)), 1)]

\* k + 1 steps on a < b * LimbBase: q = floor(a * LimbBase^k / b), and
\* r = 0 iff the division is exact
RECURSIVE BigDivLimbs(_, _, _)
BigDivLimbs(a, b, k) ==
  IF k = 0 THEN BigDivStep([q |-> <<>>, r |-> a], b)
  ELSE BigDivStep(BigDivLimbs(a, b, k - 1), b)

\* the limbs of quotient kept by a division before rounding
DivGuardLimbs == 4

\* x / y for y # 0
F64Div(x, y) ==
  IF x.m = <<>> THEN F64Zero
  ELSE LET d == BigDivLimbs(x.m, y.m, DivGuardLimbs)
       IN  F64Round(x.sgn * y.sgn, d.q, d.r # <<>>,
                    x.e - y.e - DivGuardLimbs * LimbBits)

\* the double of the finite number n/d: a numeric literal or an integer
F64OfNum(x) == F64Div(F64FromInt(x.n), F64FromInt(x.d))

\* 2^k as a double
F64Pow2(k) ==
  [sgn |-> 1, m |-> BigShl(<<1>>, MantissaBits - 1), e |-> k - (MantissaBits - 1)]

\* x + y for x >= 0 and y >= 0 ; the aligned significands a and b
\* and their exact sum n are bound as values before the sum is rounded
F64Add(x, y) ==
  IF x.m = <<>> THEN y
  ELSE IF y.m = <<>> THEN x
  ELSE LET e0 == IF x.e < y.e THEN x.e ELSE y.e
       IN  CHOOSE r \in { F64Round(1, n, FALSE, e0) :
                           n \in { BigAdd(a, b) : a \in {BigShl(x.m, x.e - e0)},
                                                  b \in {BigShl(y.m, y.e - e0)} } } :
             TRUE

\* x <= y for x >= 0 and y >= 0
F64Le(x, y) ==
  IF x.m = <<>> THEN TRUE
  ELSE IF y.m = <<>> THEN FALSE
  ELSE IF x.e # y.e THEN x.e < y.e
  ELSE BigCmp(x.m, y.m) <= 0

----------------------------------------------------------------------------
(* simulator.ts                                                            *)

Million == 1000000

DefaultLanes == 2

DefaultBitsPerPixel == 10

DefaultExposureMarginLines == 10

DefaultLaneRateMbps == 1000

DefaultNumFrames == 1

\* the destructuring of params in calculateTiming, with its defaults
lanesOf(p) == Default(p.lanes, Int2Num(DefaultLanes))

bitsPerPixelOf(p) == Default(p.bitsPerPixel, Int2Num(DefaultBitsPerPixel))

shutterTypeOf(p) == IF p.shutterType = "undefined" THEN "rolling" ELSE p.shutterType

exposureMarginLinesOf(p) == Default(p.exposureMarginLines, Int2Num(DefaultExposureMarginLines))

laneRateMbpsOf(p) == Default(p.laneRateMbps, Int2Num(DefaultLaneRateMbps))

receiverMaxFpsOf(p) == Default(p.receiverMaxFps, PosInf)

\* the pixel clock left in MHz
pixelClockHzOf_inMHz(p) == p.pixelClockMHz

\* pixelClockMHz * 1e6
pixelClockHzOf(p) == NumMul(p.pixelClockMHz, Int2Num(Million))

\* the global-shutter exposure limit without its 0.9 factor
globalMaxExposure_wholeFrame(frameTime) == frameTime

\* frameTime * 0.9
globalMaxExposure(frameTime) == NumMul(frameTime, Q(9, 10))

\* the bottleneck test with >= in place of >
isBottlenecked_inclusive(linkBandwidthMbps, linkCapacityMbps) ==
  NumGe(linkBandwidthMbps, NumMul(linkCapacityMbps, Q(95, 100)))

\* the bottleneck test with its operands exchanged
isBottlenecked_swapped(linkBandwidthMbps, linkCapacityMbps) ==
  NumGt(linkCapacityMbps, NumMul(linkBandwidthMbps, Q(95, 100)))

\* linkBandwidthMbps > linkCapacityMbps * 0.95
isBottlenecked(linkBandwidthMbps, linkCapacityMbps) ==
  NumGt(linkBandwidthMbps, NumMul(linkCapacityMbps, Q(95, 100)))

calculateTiming(p) ==
  LET pixelClockHz      == pixelClockHzOf(p)
      lineTime          == NumDiv(p.lineLengthPck, pixelClockHz)
      frameTime         == NumMul(p.frameLengthLines, lineTime)
      sensorFps         == NumDiv(Int2Num(1), frameTime)
      maxExposureTime   ==
        IF shutterTypeOf(p) = "rolling"
        THEN NumMul(NumSub(p.frameLengthLines, exposureMarginLinesOf(p)), lineTime)
        ELSE globalMaxExposure(frameTime)
      readoutDuration   == NumMul(Int2Num(p.height), lineTime)
      payloadBitsPerFrame ==
        NumMul(NumMul(Int2Num(p.width), Int2Num(p.height)), bitsPerPixelOf(p))
      linkBandwidthMbps ==
        NumDiv(NumMul(payloadBitsPerFrame, sensorFps), Int2Num(Million))
      linkCapacityMbps  == NumMul(lanesOf(p), laneRateMbpsOf(p))
      linkLimitedFps    ==
        NumDiv(linkCapacityMbps, NumDiv(payloadBitsPerFrame, Int2Num(Million)))
      effectiveFps      == JsMin(sensorFps, linkLimitedFps, receiverMaxFpsOf(p))
      linkBottlenecked  == isBottlenecked(linkBandwidthMbps, linkCapacityMbps)
  IN  [lineTime          |-> lineTime,
       frameTime         |-> frameTime,
       sensorFps         |-> sensorFps,
       maxExposureTime   |-> maxExposureTime,
       readoutDuration   |-> readoutDuration,
       effectiveFps      |-> effectiveFps,
       linkBandwidthMbps |-> linkBandwidthMbps,
       linkCapacityMbps  |-> linkCapacityMbps,
       linkBottlenecked  |-> linkBottlenecked]

\* a - b on doubles holding integers below 2^31: the difference is exact
F64SubInt(a, b) == F64FromInt(a.n - b.n)

\* lines 175-190 of calculateTiming in binary64, for a positive pixel clock
\* and integer frameLengthLines and exposureMarginLines
calculateTiming64(p) ==
  LET pixelClockHz    == F64Mul(F64OfNum(p.pixelClockMHz), F64FromInt(Million))
      lineTime        == F64Div(F64OfNum(p.lineLengthPck), pixelClockHz)
      frameTime       == F64Mul(F64OfNum(p.frameLengthLines), lineTime)
      maxExposureTime ==
        IF shutterTypeOf(p) = "rolling"
        THEN F64Mul(F64SubInt(p.frameLengthLines, exposureMarginLinesOf(p)), lineTime)
        ELSE F64Mul(frameTime, F64OfNum(Q(9, 10)))
  IN  [lineTime        |-> lineTime,
       frameTime       |-> frameTime,
       maxExposureTime |-> maxExposureTime]

\* sampleTimeOf testing the exposure time for truthiness instead of !== undefined
sampleTimeOf_truthyExposure(shutterType, exposureTime, readStartTime, frameStartTime) ==
  IF shutterType = "rolling" /\ Truthy(exposureTime) THEN readStartTime
  ELSE IF shutterType = "global" THEN frameStartTime
  ELSE Undefined

\* the sampleTime of one schedule entry (simulator.ts, generateRowSchedule)
sampleTimeOf(shutterType, exposureTime, readStartTime, frameStartTime) ==
  IF shutterType = "rolling" /\ exposureTime # Undefined THEN readStartTime
  ELSE IF shutterType = "global" THEN frameStartTime
  ELSE Undefined

\* scheduleEntry emitting the row index without the frame offset
scheduleEntry_localRow(p, t, frame, row) ==
  LET frameStartTime == NumMul(Int2Num(frame), t.frameTime)
      readStartTime  == NumAdd(frameStartTime, NumMul(Int2Num(row), t.lineTime))
      readEndTime    == NumAdd(readStartTime, t.lineTime)
  IN  [row           |-> row,
       readStartTime |-> readStartTime,
       readEndTime   |-> readEndTime,
       sampleTime    |-> sampleTimeOf(shutterTypeOf(p), p.exposureTime,
                                      readStartTime, frameStartTime)]

\* scheduleEntry ending the read one frame time, not one line time, after its start
scheduleEntry_endAfterFrameTime(p, t, frame, row) ==
  LET frameStartTime == NumMul(Int2Num(frame), t.frameTime)
      readStartTime  == NumAdd(frameStartTime, NumMul(Int2Num(row), t.lineTime))
      readEndTime    == NumAdd(readStartTime, t.frameTime)
  IN  [row           |-> row + frame * p.height,
       readStartTime |-> readStartTime,
       readEndTime   |-> readEndTime,
       sampleTime    |-> sampleTimeOf(shutterTypeOf(p), p.exposureTime,
                                      readStartTime, frameStartTime)]

\* the entry pushed for (frame, row)
scheduleEntry(p, t, frame, row) ==
  LET frameStartTime == NumMul(Int2Num(frame), t.frameTime)
      readStartTime  == NumAdd(frameStartTime, NumMul(Int2Num(row), t.lineTime))
      readEndTime    == NumAdd(readStartTime, t.lineTime)
  IN  [row           |-> row + frame * p.height,
       readStartTime |-> readStartTime,
       readEndTime   |-> readEndTime,
       sampleTime    |-> sampleTimeOf(shutterTypeOf(p), p.exposureTime,
                                      readStartTime, frameStartTime)]

\* for (let row = ...; row < height; row++) schedule.push(...)
RECURSIVE rowLoop(_, _, _, _, _)
rowLoop(p, t, frame, row, acc) ==
  IF row < p.height
  THEN rowLoop(p, t, frame, row + 1, Append(acc, scheduleEntry(p, t, frame, row)))
  ELSE acc

\* for (let frame = ...; frame < numFrames; frame++) ...
RECURSIVE frameLoop(_, _, _, _, _)
frameLoop(p, t, n, frame, acc) ==
  IF frame < n
  THEN frameLoop(p, t, n, frame + 1, rowLoop(p, t, frame, 0, acc))
  ELSE acc

\* the frames createSimulation asks the generator for
SimulationFrames == 3

\* the generator taking its default whatever the argument
generateRowSchedule_ignoresArg(p, t, numFramesArg) ==
  frameLoop(p, t, DefaultNumFrames, 0, <<>>)

\* numFramesArg is <<>> when the argument is omitted and <<N>> otherwise
generateRowSchedule(p, t, numFramesArg) ==
  LET n == IF numFramesArg = <<>> THEN DefaultNumFrames ELSE numFramesArg[1]
  IN  frameLoop(p, t, n, 0, <<>>)

\* createSimulation(params)
createSimulation(p) ==
  LET t == calculateTiming(p)
  IN  [mode |-> [id |-> "custom", description |-> "Custom Mode",
                 width |-> p.width, height |-> p.height,
                 frameLengthLines |-> p.frameLengthLines,
                 lineLengthPck |-> p.lineLengthPck,
                 pixelClockMHz |-> p.pixelClockMHz,
                 lanes |-> p.lanes, bitsPerPixel |-> p.bitsPerPixel,
                 shutterType |-> p.shutterType],
       timing |-> t,
       rowSchedule |-> generateRowSchedule(p, t, <<SimulationFrames>>),
       currentTime |-> Zero]

\* schedule[i] is present (JavaScript arrays are 0-based)
HasEntry(s, i) == i >= 0 /\ i < Len(s)

\* the seconds of lookback that mark a row as exposed
ExposedLookback == Q(1, 100)

\* classifyRow with the read window closed at its end (<= readEndTime)
classifyRow_closedReadEnd(rowSchedule, normalizedTime, frameTime) ==
  CHOOSE c \in
    { IF NumGe(rowNormalizedTime, rowSchedule.readStartTime)
         /\ NumLe(rowNormalizedTime, rowSchedule.readEndTime)
      THEN "reading"
      ELSE IF rowSchedule.sampleTime # Undefined
              /\ NumGe(rowNormalizedTime, NumSub(rowSchedule.sampleTime, ExposedLookback))
              /\ NumLt(rowNormalizedTime, rowSchedule.readStartTime)
      THEN "exposed"
      ELSE "idle" : rowNormalizedTime \in {JsRem(normalizedTime, frameTime)} } : TRUE

\* the set a row is pushed to, given its entry and the normalized time
classifyRow(rowSchedule, normalizedTime, frameTime) ==
  CHOOSE c \in
    { IF NumGe(rowNormalizedTime, rowSchedule.readStartTime)
         /\ NumLt(rowNormalizedTime, rowSchedule.readEndTime)
      THEN "reading"
      ELSE IF rowSchedule.sampleTime # Undefined
              /\ NumGe(rowNormalizedTime, NumSub(rowSchedule.sampleTime, ExposedLookback))
              /\ NumLt(rowNormalizedTime, rowSchedule.readStartTime)
      THEN "exposed"
      ELSE "idle" : rowNormalizedTime \in {JsRem(normalizedTime, frameTime)} } : TRUE

\* resolverFrameTime reading the first row of the schedule instead of row height-1
resolverFrameTime_firstRow(s, h) ==
  OrElse(IF HasEntry(s, 0) THEN s[1].readEndTime ELSE Undefined, Zero)

\* schedule[height - 1]?.readEndTime || 0
resolverFrameTime(s, h) ==
  OrElse(IF HasEntry(s, h - 1) THEN s[h].readEndTime ELSE Undefined, Zero)

\* resolveLoop without the idleRows.push(row) of a row that has no entry
RECURSIVE resolveLoop_noPushOnMissing(_, _, _, _, _, _)
resolveLoop_noPushOnMissing(s, n, ft, h, row, acc) ==
  IF row < h
  THEN LET c == IF ~HasEntry(s, row) THEN "none" ELSE classifyRow(s[row + 1], n, ft)
       IN  resolveLoop_noPushOnMissing(s, n, ft, h, row + 1,
             [readingRows |-> IF c = "reading" THEN Append(acc.readingRows, row)
                              ELSE acc.readingRows,
              exposedRows |-> IF c = "exposed" THEN Append(acc.exposedRows, row)
                              ELSE acc.exposedRows,
              idleRows    |-> IF c = "idle" THEN Append(acc.idleRows, row)
                              ELSE acc.idleRows])
  ELSE acc

\* resolveLoop pushing a row that has no entry to readingRows
RECURSIVE resolveLoop_missingIsReading(_, _, _, _, _, _)
resolveLoop_missingIsReading(s, n, ft, h, row, acc) ==
  IF row < h
  THEN LET c == IF ~HasEntry(s, row) THEN "reading" ELSE classifyRow(s[row + 1], n, ft)
       IN  resolveLoop_missingIsReading(s, n, ft, h, row + 1,
             [readingRows |-> IF c = "reading" THEN Append(acc.readingRows, row)
                              ELSE acc.readingRows,
              exposedRows |-> IF c = "exposed" THEN Append(acc.exposedRows, row)
                              ELSE acc.exposedRows,
              idleRows    |-> IF c = "idle" THEN Append(acc.idleRows, row)
                              ELSE acc.idleRows])
  ELSE acc

\* for (let row = 0; row < height; row++) ... push(row)
RECURSIVE resolveLoop(_, _, _, _, _, _)
resolveLoop(s, n, ft, h, row, acc) ==
  IF row < h
  THEN LET c == IF ~HasEntry(s, row) THEN "idle" ELSE classifyRow(s[row + 1], n, ft)
       IN  resolveLoop(s, n, ft, h, row + 1,
             [readingRows |-> IF c = "reading" THEN Append(acc.readingRows, row)
                              ELSE acc.readingRows,
              exposedRows |-> IF c = "exposed" THEN Append(acc.exposedRows, row)
                              ELSE acc.exposedRows,
              idleRows    |-> IF c = "idle" THEN Append(acc.idleRows, row)
                              ELSE acc.idleRows])
  ELSE acc

getRowStateAtTime(s, t, h) ==
  CHOOSE state \in
    UNION { { resolveLoop(s, normalizedTime, frameTime, h, 0,
                          [readingRows |-> <<>>, exposedRows |-> <<>>, idleRows |-> <<>>]) :
                normalizedTime \in {JsRem(t, frameTime)} } :
            frameTime \in {resolverFrameTime(s, h)} } : TRUE

\* the sweep starting one step after min
sweepStart_afterMin(r) == NumAdd(r.min, r.step)

\* let fll = fllRange.min
sweepStart(r) == r.min

\* the loop test taken as fll < fllRange.max
sweepContinues_strict(v, r) == NumLt(v, r.max)

\* fll <= fllRange.max
sweepContinues(v, r) == NumLe(v, r.max)

\* the loop variable moved by 1 whatever the step
sweepAdvance_byOne(v, r) == NumAdd(v, Int2Num(1))

\* fll += fllRange.step
sweepAdvance(v, r) == NumAdd(v, r.step)

\* the timing calculator handed baseParams as they are
sweptParams_base(fn, base, v) == base

\* { ...baseParams, frameLengthLines: fll } and { ...baseParams, lineLengthPck: ll }
sweptParams(fn, base, v) ==
  IF fn = "calculateExposureVsFll" THEN [base EXCEPT !.frameLengthLines = v]
  ELSE [base EXCEPT !.lineLengthPck = v]

\* the entry pushed for the sample point v
sweepEntry(fn, base, v) ==
  LET t == calculateTiming(sweptParams(fn, base, v))
  IN  IF fn = "calculateExposureVsFll"
      THEN [fll |-> v, maxExposure |-> t.maxExposureTime, fps |-> t.sensorFps]
      ELSE [lineLength |-> v, fps |-> t.sensorFps, maxExposure |-> t.maxExposureTime]

\* fll <= fllRange.max on doubles
sweepContinues64(v, r) == F64Le(v, r.max)

\* the loop variable left where it is
sweepAdvance64_noStep(v, r) == v

\* fll += fllRange.step on doubles
sweepAdvance64(v, r) == F64Add(v, r.step)

----------------------------------------------------------------------------
(* TimingCharts.tsx: the ranges of the two chart sweeps                    *)

Max(a, b) == IF a > b THEN a ELSE b

\* { min: height, max: height * 2, step: Math.max(1, Math.floor(height / 20)) }
exposureVsFllRange(h) ==
  [min |-> F64FromInt(h), max |-> F64FromInt(h * 2),
   step |-> F64FromInt(Max(1, h \div 20))]

\* { min: width, max: width * 2, step: Math.max(10, Math.floor(width / 20)) }
fpsVsLineLengthRange(w) ==
  [min |-> F64FromInt(w), max |-> F64FromInt(w * 2),
   step |-> F64FromInt(Max(10, w \div 20))]

----------------------------------------------------------------------------
(* Bounds and input sets                                                   *)

MaxScheduleLen == 3

MaxHeight == 3

MaxFrames == 3

NoParams ==
  [width |-> 0, height |-> 0, frameLengthLines |-> Zero, lineLengthPck |-> Zero,
   pixelClockMHz |-> Zero, lanes |-> Undefined, bitsPerPixel |-> Undefined,
   shutterType |-> "undefined", exposureTime |-> Undefined,
   exposureMarginLines |-> Undefined, laneRateMbps |-> Undefined,
   receiverMaxFps |-> Undefined]

NoTiming == [lineTime |-> Zero, frameTime |-> Zero]

NoTiming64 == [lineTime |-> F64Zero, frameTime |-> F64Zero, maxExposureTime |-> F64Zero]

NoRowState == [readingRows |-> <<>>, exposedRows |-> <<>>, idleRows |-> <<>>]

NoRange == [min |-> Zero, max |-> Zero, step |-> Zero]

NoRange64 == [min |-> F64Zero, max |-> F64Zero, step |-> F64Zero]

NoMode ==
  [id |-> "", description |-> "", width |-> 0, height |-> 0,
   frameLengthLines |-> Zero, lineLengthPck |-> Zero, pixelClockMHz |-> Zero,
   lanes |-> Undefined, bitsPerPixel |-> Undefined, shutterType |-> "undefined"]

NoSimulation ==
  [mode |-> NoMode, timing |-> NoTiming, rowSchedule |-> <<>>, currentTime |-> Zero]

\* no page mounted
PageIdle ==
  /\ simulation = NoSimulation
  /\ isPlaying = FALSE
  /\ playbackSpeed = Int2Num(1)
  /\ currentTime = Zero
  /\ mounted = FALSE
  /\ timeRef = Zero
  /\ initializedRef = FALSE
  /\ updateVisualizationRef = 0
  /\ animationFrameRef = 0
  /\ animCleanupSet = FALSE
  /\ appRef = 0
  /\ runs = <<>>
  /\ rafQueue = {}
  /\ resolverCalled = FALSE
  /\ timeUpdate = Undefined
  /\ csvLines = <<>>
  /\ modes = <<>>

\* no sweep in progress
SweepIdle ==
  /\ sweepFn = "none"
  /\ range = NoRange
  /\ cursor = Zero
  /\ results = <<>>
  /\ range64 = NoRange64
  /\ cursor64 = F64Zero

\* entries of a hand-built schedule: times on a grid of 0.01 s
EntryValues ==
  { [row |-> 0, readStartTime |-> Q(w[1], 100), readEndTime |-> Q(w[2], 100),
     sampleTime |-> st] :
      w \in {<<0, 1>>, <<0, 2>>, <<1, 2>>}, st \in {Undefined, Q(0, 100), Q(1, 100)} }
  \cup { [row |-> 0, readStartTime |-> Zero, readEndTime |-> Zero, sampleTime |-> Undefined] }

RECURSIVE SeqsUpTo(_, _)
SeqsUpTo(S, n) ==
  IF n = 0 THEN {<<>>}
  ELSE LET shorter == SeqsUpTo(S, n - 1)
       IN  shorter \cup { Append(q, x) : q \in { r \in shorter : Len(r) = n - 1 }, x \in S }

\* query times of the resolver, in seconds
ResolverTimes == { Q(a, 200) : a \in {-1, 0, 1, 2, 3, 5} }

----------------------------------------------------------------------------
(* The resolver applied to an arbitrary schedule                           *)

InitResolver ==
  /\ pc = "resolve"
  /\ params = NoParams
  /\ timing = NoTiming
  /\ timing64 = NoTiming64
  /\ numFrames = <<>>
  /\ schedule \in SeqsUpTo(EntryValues, MaxScheduleLen)
  /\ time \in ResolverTimes
  /\ height \in 0..MaxHeight
  /\ rowState = NoRowState
  /\ SweepIdle
  /\ PageIdle

\* one call of getRowStateAtTime(schedule, time, height)
Resolve ==
  /\ pc = "resolve"
  /\ rowState' = getRowStateAtTime(schedule, time, height)
  /\ pc' = "done"
  /\ UNCHANGED <<params, timing, timing64, numFrames, schedule, time, height>>
  /\ UNCHANGED <<sweepVars, pageVars>>

NextResolver == Resolve

SpecResolver == InitResolver /\ [][NextResolver]_vars

----------------------------------------------------------------------------
(* Properties of the resolver on arbitrary schedules                       *)

Range(s) == { s[i] : i \in 1..Len(s) }

\* C1: the three row lists returned by getRowStateAtTime are pairwise
\* disjoint and together hold every row of 0..height-1 exactly once, for
\* every schedule (empty or shorter than height included), time and height.
C1_Partition ==
  pc = "done" =>
    /\ Len(rowState.readingRows) + Len(rowState.exposedRows) + Len(rowState.idleRows)
         = height
    /\ Range(rowState.readingRows) \cup Range(rowState.exposedRows)
         \cup Range(rowState.idleRows) = 0..(height - 1)
    /\ Range(rowState.readingRows) \cap Range(rowState.exposedRows) = {}
    /\ Range(rowState.readingRows) \cap Range(rowState.idleRows) = {}
    /\ Range(rowState.exposedRows) \cap Range(rowState.idleRows) = {}

\* a call with fewer entries than rows that still fills two of the lists is
\* impossible (the frame time is then 0), so the witness takes a full
\* schedule with all three lists non-empty
C1_Witness ==
  /\ pc = "done"
  /\ height = 3
  /\ rowState.readingRows # <<>>
  /\ rowState.exposedRows # <<>>
  /\ rowState.idleRows # <<>>

\* the normalized time the claim C2 speaks of: time % schedule[height-1].readEndTime
C2_n ==
  JsRem(time, IF HasEntry(schedule, height - 1) THEN schedule[height].readEndTime
              ELSE Undefined)

C2_reading(e) == NumLe(e.readStartTime, C2_n) /\ NumLt(C2_n, e.readEndTime)

C2_exposed(e) ==
  /\ ~C2_reading(e)
  /\ e.sampleTime # Undefined
  /\ NumLe(NumSub(e.sampleTime, Q(1, 100)), C2_n)
  /\ NumLt(C2_n, e.readStartTime)

\* C2: a row with a schedule entry is reading iff readStartTime <= n <
\* readEndTime, otherwise exposed iff sampleTime is defined and
\* sampleTime - 0.01 <= n < readStartTime, otherwise idle, where
\* n = time % schedule[height-1].readEndTime.
C2_Classification ==
  pc = "done" =>
    \A r \in 0..(height - 1) :
      HasEntry(schedule, r) =>
        LET e == schedule[r + 1]
        IN  /\ (r \in Range(rowState.readingRows)) <=> C2_reading(e)
            /\ (r \in Range(rowState.exposedRows)) <=> C2_exposed(e)
            /\ (r \in Range(rowState.idleRows)) <=> (~C2_reading(e) /\ ~C2_exposed(e))

\* a query time past the frame time, wrapped, with a reading and an exposed row
C2_Witness ==
  /\ pc = "done"
  /\ HasEntry(schedule, height - 1)
  /\ NumGt(time, schedule[height].readEndTime)
  /\ rowState.readingRows # <<>>
  /\ rowState.exposedRows # <<>>

----------------------------------------------------------------------------
(* The generator, and the resolver applied to a generated schedule         *)

\* small heights, and the 10 rows of the worked example of the resolver
GenHeights == 0..MaxHeight \cup {10}

GenLineTimes == {Zero, Q(1, 200), Q(1, 100), Int2Num(1)}

GenFrameTimes == {Zero, Q(1, 100), Q(1, 25), Int2Num(10)}

GenExposureTimes == {Undefined, Zero, Q(16, 1000)}

GenNumFrames == {<<>>} \cup { <<n>> : n \in 0..MaxFrames }

GenTimes == { Q(a, 200) : a \in {-1, 0, 1, 2, 3, 7, 100, 2100} }

InitGen ==
  /\ pc = "generate"
  /\ \E h \in GenHeights, st \in {"undefined", "rolling", "global"},
        et \in GenExposureTimes :
       params = [NoParams EXCEPT !.height = h, !.shutterType = st, !.exposureTime = et]
  /\ \E lt \in GenLineTimes, ft \in GenFrameTimes :
       timing = [lineTime |-> lt, frameTime |-> ft]
  /\ timing64 = NoTiming64
  /\ numFrames \in GenNumFrames
  /\ schedule = <<>>
  /\ time \in GenTimes
  /\ height = params.height
  /\ rowState = NoRowState
  /\ SweepIdle
  /\ PageIdle

\* one call of generateRowSchedule(params, timing, numFrames)
Generate ==
  /\ pc = "generate"
  /\ schedule' = generateRowSchedule(params, timing, numFrames)
  /\ pc' = "resolve"
  /\ UNCHANGED <<params, timing, timing64, numFrames, time, height, rowState>>
  /\ UNCHANGED <<sweepVars, pageVars>>

NextGen == Generate \/ Resolve

SpecGen == InitGen /\ [][NextGen]_vars

----------------------------------------------------------------------------
(* Properties of the generator and of the resolver on its schedules        *)

\* the number of frames asked for (the argument, or its default)
FramesAsked == IF numFrames = <<>> THEN DefaultNumFrames ELSE numFrames[1]

Generated == pc \in {"resolve", "done"}

\* floor((time mod height*lineTime) / lineTime)
C3_row ==
  LET q == NumDiv(JsRem(time, NumMul(Int2Num(height), timing.lineTime)), timing.lineTime)
  IN  q.n \div q.d

C4_RowIndices ==
  (Generated /\ numFrames # <<>>)
  => /\ Len(schedule) = numFrames[1] * params.height
     /\ \A i \in 1..Len(schedule) : schedule[i].row = i - 1
     /\ \A f \in 0..(numFrames[1] - 1), r \in 0..(params.height - 1) :
          /\ HasEntry(schedule, r + f * params.height)
          /\ schedule[r + f * params.height + 1].row = r + f * params.height

C4_Witness ==
  /\ Generated
  /\ numFrames = <<3>>
  /\ params.height = 3
  /\ Len(schedule) = 9
  /\ schedule[9].row = 8

\* the entry of frame f, row r (C4 places it at index r + f*H)
EntryAt(f, r) == schedule[r + f * params.height + 1]

C6_SampleTime ==
  Generated =>
    \A f \in 0..(FramesAsked - 1), r \in 0..(params.height - 1) :
      LET rolling == params.shutterType \in {"rolling", "undefined"}
      IN  /\ (rolling /\ params.exposureTime # Undefined) =>
               EntryAt(f, r).sampleTime = EntryAt(f, r).readStartTime
          /\ params.shutterType = "global" =>
               EntryAt(f, r).sampleTime = NumMul(Int2Num(f), timing.frameTime)
          /\ (rolling /\ params.exposureTime = Undefined) =>
               EntryAt(f, r).sampleTime = Undefined

\* a rolling shutter with exposureTime 0, in a frame after the first
C6_Witness ==
  /\ Generated
  /\ params.shutterType = "rolling"
  /\ params.exposureTime = Zero
  /\ FramesAsked >= 2
  /\ params.height >= 2
  /\ NumGt(timing.lineTime, Zero)
  /\ EntryAt(1, 1).sampleTime = EntryAt(1, 1).readStartTime
  /\ EntryAt(1, 1).sampleTime # Undefined

----------------------------------------------------------------------------
(* The timing calculator                                                   *)

TimingWidths == {0, 19, 20}

TimingHeights == {0, 50}

TimingFrameLengths == {Zero, Int2Num(100), Int2Num(102)}

TimingLineLengths == {Zero, Int2Num(100)}

TimingPixelClocks == {Zero, Int2Num(1), Int2Num(2)}

TimingLanes == {Undefined, Zero, Int2Num(1)}

TimingLaneRates == {Undefined, Int2Num(1)}

TimingBitsPerPixel == {Undefined, Int2Num(8)}

TimingReceiverMaxFps == {Undefined, Int2Num(50)}

InitTiming ==
  /\ pc = "timing"
  /\ \E w \in TimingWidths, h \in TimingHeights, fll \in TimingFrameLengths,
        ll \in TimingLineLengths, pck \in TimingPixelClocks, ln \in TimingLanes,
        lr \in TimingLaneRates, bpp \in TimingBitsPerPixel,
        rx \in TimingReceiverMaxFps, st \in {"rolling", "global"} :
       params = [NoParams EXCEPT !.width = w, !.height = h, !.frameLengthLines = fll,
                                 !.lineLengthPck = ll, !.pixelClockMHz = pck,
                                 !.lanes = ln, !.laneRateMbps = lr, !.bitsPerPixel = bpp,
                                 !.receiverMaxFps = rx, !.shutterType = st]
  /\ timing = NoTiming
  /\ timing64 = NoTiming64
  /\ numFrames = <<>>
  /\ schedule = <<>>
  /\ time = Zero
  /\ height = 0
  /\ rowState = NoRowState
  /\ SweepIdle
  /\ PageIdle

\* one call of calculateTiming(params)
CalculateTiming ==
  /\ pc = "timing"
  /\ timing' = calculateTiming(params)
  /\ pc' = "done"
  /\ UNCHANGED <<params, timing64, numFrames, schedule, time, height, rowState>>
  /\ UNCHANGED <<sweepVars, pageVars>>

NextTiming == CalculateTiming

SpecTiming == InitTiming /\ [][NextTiming]_vars

\* integer parameters, and the pixel clock 129.6 of the default mode
Timing64FrameLengths == {Int2Num(5), Int2Num(100), Int2Num(1000), Int2Num(3224)}

Timing64LineLengths == {Zero, Int2Num(100), Int2Num(1000), Int2Num(9016)}

Timing64PixelClocks == {Int2Num(1), Int2Num(100), Q(1296, 10)}

Timing64MarginLines == {Undefined, Zero, Int2Num(200)}

InitTiming64 ==
  /\ pc = "timing64"
  /\ \E fll \in Timing64FrameLengths, ll \in Timing64LineLengths,
        pck \in Timing64PixelClocks, ml \in Timing64MarginLines,
        st \in {"undefined", "rolling", "global"} :
       params = [NoParams EXCEPT !.frameLengthLines = fll, !.lineLengthPck = ll,
                                 !.pixelClockMHz = pck, !.exposureMarginLines = ml,
                                 !.shutterType = st]
  /\ timing = NoTiming
  /\ timing64 = NoTiming64
  /\ numFrames = <<>>
  /\ schedule = <<>>
  /\ time = Zero
  /\ height = 0
  /\ rowState = NoRowState
  /\ SweepIdle
  /\ PageIdle

\* one call of calculateTiming(params): its exact values and its doubles
CalculateTiming64 ==
  /\ pc = "timing64"
  /\ timing' = calculateTiming(params)
  /\ timing64' = calculateTiming64(params)
  /\ pc' = "done"
  /\ UNCHANGED <<params, numFrames, schedule, time, height, rowState>>
  /\ UNCHANGED <<sweepVars, pageVars>>

NextTiming64 == CalculateTiming64

SpecTiming64 == InitTiming64 /\ [][NextTiming64]_vars

----------------------------------------------------------------------------
(* Properties of the timing calculator                                     *)

\* width * height * bitsPerPixel, bitsPerPixel defaulting to 10
PayloadBits ==
  NumMul(Int2Num(params.width * params.height),
         IF params.bitsPerPixel = Undefined THEN Int2Num(10) ELSE params.bitsPerPixel)

\* lanes * laneRateMbps, defaulting to 2 lanes of 1000 Mbps
LinkCapacity ==
  NumMul(IF params.lanes = Undefined THEN Int2Num(2) ELSE params.lanes,
         IF params.laneRateMbps = Undefined THEN Int2Num(1000) ELSE params.laneRateMbps)

\* linkCapacityMbps / (width*height*bitsPerPixel / 1e6)
LinkLimitedFps == NumDiv(LinkCapacity, NumDiv(PayloadBits, Int2Num(1000000)))

ReceiverLimit ==
  IF params.receiverMaxFps = Undefined THEN PosInf ELSE params.receiverMaxFps

\* C7: for pixelClockMHz > 0, lineLengthPck > 0 and frameLengthLines > 0,
\* frameTime = frameLengthLines * lineLengthPck / (pixelClockMHz * 1e6) and
\* sensorFps = 1 / frameTime, so that sensorFps * frameTime = 1.
C7_FrameTimeAndFps ==
  (/\ pc = "done"
   /\ NumGt(params.pixelClockMHz, Zero)
   /\ NumGt(params.lineLengthPck, Zero)
   /\ NumGt(params.frameLengthLines, Zero))
  => /\ timing.frameTime
          = NumDiv(NumMul(params.frameLengthLines, params.lineLengthPck),
                   NumMul(params.pixelClockMHz, Int2Num(1000000)))
     /\ timing.sensorFps = NumDiv(Int2Num(1), timing.frameTime)
     /\ NumMul(timing.sensorFps, timing.frameTime) = Int2Num(1)

\* 102 lines of 100 clocks at 2 MHz: 5.1 ms per frame
C7_Witness ==
  /\ pc = "done"
  /\ params.frameLengthLines = Int2Num(102)
  /\ params.lineLengthPck = Int2Num(100)
  /\ params.pixelClockMHz = Int2Num(2)
  /\ timing.frameTime = Q(51, 10000)
  /\ timing.sensorFps = Q(10000, 51)

\* C8 as stated: effectiveFps is the least of sensorFps, linkLimitedFps and
\* receiverMaxFps (unbounded when omitted), and effectiveFps <= sensorFps
\* for every input.
C8_EffectiveFpsForEveryInput ==
  pc = "done" =>
    /\ timing.effectiveFps \in {timing.sensorFps, LinkLimitedFps, ReceiverLimit}
    /\ NumLe(timing.effectiveFps, LinkLimitedFps)
    /\ NumLe(timing.effectiveFps, ReceiverLimit)
    /\ NumLe(timing.effectiveFps, timing.sensorFps)

C8_SomeNaN == IsNaN(timing.sensorFps) \/ IsNaN(LinkLimitedFps) \/ IsNaN(ReceiverLimit)

\* C8, amended: effectiveFps = Math.min(sensorFps, linkLimitedFps,
\* receiverMaxFps), which is NaN as soon as one of the three is NaN and
\* their least otherwise; effectiveFps <= sensorFps holds for every input
\* for which none of the three is NaN.
C8_EffectiveFps ==
  pc = "done" =>
    IF C8_SomeNaN THEN timing.effectiveFps = NaN
    ELSE /\ timing.effectiveFps \in {timing.sensorFps, LinkLimitedFps, ReceiverLimit}
         /\ NumLe(timing.effectiveFps, LinkLimitedFps)
         /\ NumLe(timing.effectiveFps, ReceiverLimit)
         /\ NumLe(timing.effectiveFps, timing.sensorFps)

\* a link-limited frame rate, no receiver limit given
C8_Witness ==
  /\ pc = "done"
  /\ params.receiverMaxFps = Undefined
  /\ ~C8_SomeNaN
  /\ timing.effectiveFps = LinkLimitedFps
  /\ NumLt(timing.effectiveFps, timing.sensorFps)
  /\ NumGt(timing.effectiveFps, Zero)

\* C9: linkBottlenecked is true iff linkBandwidthMbps > 0.95 *
\* linkCapacityMbps, with linkBandwidthMbps = width*height*bitsPerPixel *
\* sensorFps / 1e6 and linkCapacityMbps = lanes * laneRateMbps; at exactly
\* 95% the flag is false.
C9_Bottleneck ==
  pc = "done" =>
    /\ timing.linkBandwidthMbps
         = NumDiv(NumMul(PayloadBits, timing.sensorFps), Int2Num(1000000))
    /\ timing.linkCapacityMbps = LinkCapacity
    /\ timing.linkBottlenecked
         <=> NumLt(NumMul(Q(95, 100), timing.linkCapacityMbps), timing.linkBandwidthMbps)
    /\ timing.linkBandwidthMbps = NumMul(Q(95, 100), timing.linkCapacityMbps)
         => ~timing.linkBottlenecked

\* a link loaded to exactly 95% of a non-zero capacity
C9_Witness ==
  /\ pc = "done"
  /\ NumGt(timing.linkCapacityMbps, Zero)
  /\ timing.linkBandwidthMbps = NumMul(Q(95, 100), timing.linkCapacityMbps)
  /\ ~timing.linkBottlenecked

RollingShutter == params.shutterType \in {"rolling", "undefined"}

MarginLines ==
  IF params.exposureMarginLines = Undefined THEN Int2Num(10)
  ELSE params.exposureMarginLines

\* the double that follows x
NextDouble(x) == [x EXCEPT !.m = BigAdd(x.m, <<1>>)]

\* the formulas of C10 for maxExposureTime, in exact arithmetic
C10_Formulas ==
  /\ RollingShutter =>
       timing.maxExposureTime
         = NumMul(NumSub(params.frameLengthLines, MarginLines), timing.lineTime)
  /\ (RollingShutter /\ NumGt(MarginLines, params.frameLengthLines)
        /\ NumGt(timing.lineTime, Zero)) =>
       NumLt(timing.maxExposureTime, Zero)
  /\ ~RollingShutter => timing.maxExposureTime = NumMul(Q(9, 10), timing.frameTime)

GlobalAtTenMs ==
  /\ pc = "done"
  /\ ~RollingShutter
  /\ timing.frameTime = Q(1, 100)
  /\ timing64.frameTime = F64OfNum(Q(1, 100))

\* C10 as stated: the formulas, and a global shutter with frameTime 0.01 s
\* returns exactly the double 0.009.
C10_ExactlyNineMs ==
  pc = "done" =>
    /\ C10_Formulas
    /\ GlobalAtTenMs => timing64.maxExposureTime = F64OfNum(Q(9, 1000))

\* C10, amended: the formulas hold; a global shutter with frameTime 0.01 s
\* gives 0.009 s in exact arithmetic and the double 0.009000000000000001,
\* the one that follows the double 0.009.
C10_MaxExposure ==
  pc = "done" =>
    /\ C10_Formulas
    /\ GlobalAtTenMs =>
         /\ timing.maxExposureTime = Q(9, 1000)
         /\ timing64.maxExposureTime = NextDouble(F64OfNum(Q(9, 1000)))

C10_Witness ==
  /\ GlobalAtTenMs
  /\ timing64.maxExposureTime # F64OfNum(Q(9, 1000))

----------------------------------------------------------------------------
(* The sweeps calculateExposureVsFll and calculateFpsVsLineLength, one     *)
(* loop iteration per step                                                 *)

\* the longest result list the model lets a sweep build
MaxSweepLen == 5

\* small ranges of every shape, and the ranges around {100, 200, 50}
SweepRanges ==
  { [min |-> Int2Num(a), max |-> Int2Num(b), step |-> st] :
      a \in {0, 1, 2}, b \in {0, 1, 3},
      st \in {Int2Num(-1), Zero, Int2Num(1), Int2Num(2), Q(3, 2)} }
  \cup { [min |-> Int2Num(w[1]), max |-> Int2Num(w[2]), step |-> Int2Num(w[3])] :
           w \in {<<100, 200, 50>>, <<100, 199, 50>>, <<200, 100, 50>>,
                  <<100, 200, -50>>} }

SweepPixelClocks == {Int2Num(1), Int2Num(2)}

InitSweep ==
  /\ pc = "sweep"
  /\ \E pck \in SweepPixelClocks, st \in {"rolling", "global"} :
       params = [NoParams EXCEPT !.frameLengthLines = Int2Num(120),
                                 !.lineLengthPck = Int2Num(110),
                                 !.pixelClockMHz = pck, !.shutterType = st]
  /\ timing = NoTiming
  /\ timing64 = NoTiming64
  /\ numFrames = <<>>
  /\ schedule = <<>>
  /\ time = Zero
  /\ height = 0
  /\ rowState = NoRowState
  /\ sweepFn \in {"calculateExposureVsFll", "calculateFpsVsLineLength"}
  /\ range \in SweepRanges
  /\ cursor = sweepStart(range)
  /\ results = <<>>
  /\ range64 = NoRange64
  /\ cursor64 = F64Zero
  /\ PageIdle

\* one iteration of the loop: the test holds, an entry is pushed and the
\* loop variable moves on
SweepIterate ==
  /\ pc = "sweep"
  /\ sweepContinues(cursor, range)
  /\ Len(results) < MaxSweepLen
  /\ results' = Append(results, sweepEntry(sweepFn, params, cursor))
  /\ cursor' = sweepAdvance(cursor, range)
  /\ UNCHANGED <<pc, params, timing, timing64, numFrames, schedule, time, height,
                 rowState, sweepFn, range, sweep64Vars, pageVars>>

\* the test fails: return results
SweepReturn ==
  /\ pc = "sweep"
  /\ ~sweepContinues(cursor, range)
  /\ pc' = "done"
  /\ UNCHANGED <<params, timing, timing64, numFrames, schedule, time, height,
                 rowState, sweepVars, pageVars>>

NextSweep == SweepIterate \/ SweepReturn

SpecSweep == InitSweep /\ [][NextSweep]_vars

----------------------------------------------------------------------------
(* Properties of the sweeps                                                *)

\* the sample point of a result entry
SamplePoint(e) == IF sweepFn = "calculateExposureVsFll" THEN e.fll ELSE e.lineLength

\* floor of a finite number
NumFloor(x) == x.n \div x.d

StepPositive == NumGt(range.step, Zero)

RangeNonEmpty == NumLe(range.min, range.max)

\* min + k * step
PointAt(k) == NumAdd(range.min, NumMul(Int2Num(k), range.step))

C12_AlwaysStartsAtMin ==
  (pc = "done" /\ sweepFn # "none" /\ StepPositive) =>
    /\ Len(results) >= 1
    /\ SamplePoint(results[1]) = range.min

\* C12, amended: with step > 0 and min <= max the first entry exists and
\* has sample point range.min; with min > max the output is empty.
C12_StartsAtMin ==
  (pc = "done" /\ sweepFn # "none" /\ StepPositive) =>
    IF RangeNonEmpty
    THEN Len(results) >= 1 /\ SamplePoint(results[1]) = range.min
    ELSE results = <<>>

C12_Witness ==
  /\ pc = "done"
  /\ StepPositive
  /\ NumGt(range.min, Zero)
  /\ Len(results) >= 2
  /\ SamplePoint(results[1]) = range.min

\* the timing of baseParams with only the swept field replaced by v
TimingAt(v) ==
  calculateTiming(IF sweepFn = "calculateExposureVsFll"
                  THEN [params EXCEPT !.frameLengthLines = v]
                  ELSE [params EXCEPT !.lineLengthPck = v])

EntriesFromBaseParams ==
  \A i \in 1..Len(results) :
    /\ results[i].fps = TimingAt(SamplePoint(results[i])).sensorFps
    /\ results[i].maxExposure = TimingAt(SamplePoint(results[i])).maxExposureTime

\* C13: every entry carries sensorFps and maxExposureTime of calculateTiming
\* for baseParams with only the swept field replaced by the sample point,
\* and the sweep leaves baseParams unmodified.
C13_EntryValues == [](EntriesFromBaseParams) /\ [][params' = params]_vars

\* an entry whose values differ from those of baseParams themselves
C13_Witness ==
  /\ pc = "done"
  /\ Len(results) >= 2
  /\ results[2].fps # calculateTiming(params).sensorFps
  /\ results[2].maxExposure # calculateTiming(params).maxExposureTime
  /\ EntriesFromBaseParams

\* C15 as stated: a sweep called with step <= 0 never returns.
C15_NeverReturns ==
  (sweepFn # "none" /\ ~StepPositive) => pc # "done"

\* C15, amended: a sweep called with step <= 0 and min <= max never
\* returns, its loop variable staying <= max; called with min > max it
\* returns an empty result without entering the loop.
C15_NonTermination ==
  (sweepFn # "none" /\ ~StepPositive) =>
    IF RangeNonEmpty
    THEN pc # "done" /\ NumLe(cursor, range.max)
    ELSE results = <<>>

\* a sweep with a negative step still looping after three entries
C15_Witness ==
  /\ pc = "sweep"
  /\ NumLt(range.step, Zero)
  /\ RangeNonEmpty
  /\ Len(results) >= 3
  /\ NumLt(cursor, range.min)

----------------------------------------------------------------------------
(* Termination of the sweeps: the loop variable as a double.  Only the     *)
(* loop variable decides whether the loop is left, so the result list is   *)
(* not carried here.                                                       *)

ChartHeights == {0, 1, 19, 20, 40, 3120}

ChartWidths == {0, 5, 199, 200, 219, 4208}

\* the ranges TimingCharts passes to the two sweeps
ChartRanges64(fn) ==
  IF fn = "calculateExposureVsFll"
  THEN { exposureVsFllRange(h) : h \in ChartHeights }
  ELSE { fpsVsLineLengthRange(w) : w \in ChartWidths }

\* other ranges with step > 0: {100, 200, 50}, an empty range, a step of
\* 0.1, and two ranges whose step is below half the spacing of the doubles
\* at min: {2^53, 2^53 + 2, 1} and {1, 2, 2^-53}
DirectRanges64 ==
  { [min |-> F64FromInt(100), max |-> F64FromInt(200), step |-> F64FromInt(50)],
    [min |-> F64FromInt(200), max |-> F64FromInt(100), step |-> F64FromInt(50)],
    [min |-> F64Zero, max |-> F64FromInt(1), step |-> F64OfNum(Q(1, 10))],
    [min |-> F64Pow2(53), max |-> F64Add(F64Pow2(53), F64FromInt(2)),
     step |-> F64FromInt(1)],
    [min |-> F64FromInt(1), max |-> F64FromInt(2), step |-> F64Pow2(-53)] }

InitSweep64 ==
  /\ pc = "sweep64"
  /\ params = NoParams
  /\ timing = NoTiming
  /\ timing64 = NoTiming64
  /\ numFrames = <<>>
  /\ schedule = <<>>
  /\ time = Zero
  /\ height = 0
  /\ rowState = NoRowState
  /\ sweepFn \in {"calculateExposureVsFll", "calculateFpsVsLineLength"}
  /\ range = NoRange
  /\ cursor = Zero
  /\ results = <<>>
  /\ range64 \in ChartRanges64(sweepFn) \cup DirectRanges64
  /\ cursor64 = range64.min
  /\ PageIdle

\* one iteration of the loop
SweepIterate64 ==
  /\ pc = "sweep64"
  /\ sweepContinues64(cursor64, range64)
  /\ cursor64' = sweepAdvance64(cursor64, range64)
  /\ UNCHANGED <<pc, params, timing, timing64, numFrames, schedule, time, height,
                 rowState, sweepFn, range, cursor, results, range64, pageVars>>

\* the test fails: the sweep returns
SweepReturn64 ==
  /\ pc = "sweep64"
  /\ ~sweepContinues64(cursor64, range64)
  /\ pc' = "done"
  /\ UNCHANGED <<params, timing, timing64, numFrames, schedule, time, height,
                 rowState, sweepVars, pageVars>>

NextSweep64 == SweepIterate64 \/ SweepReturn64

SpecSweep64 == InitSweep64 /\ [][NextSweep64]_vars

\* a running loop keeps running
SpecSweep64Live == SpecSweep64 /\ WF_vars(NextSweep64)

----------------------------------------------------------------------------
(* Properties of the termination of the sweeps                             *)

StepPositive64 == range64.step.m # <<>> /\ range64.step.sgn = 1

\* the loop test holds and adding step leaves the loop variable unchanged
Stuck64 ==
  /\ pc = "sweep64"
  /\ sweepContinues64(cursor64, range64)
  /\ sweepAdvance64(cursor64, range64) = cursor64

\* C14 as stated: for every range with finite min and max and step > 0 the
\* sweeps terminate, the two sweeps of TimingCharts among them.
C14_AlwaysTerminates ==
  (pc = "sweep64" /\ StepPositive64) ~> (pc = "done")

\* C14, amended: for finite min and max and step > 0 a sweep terminates
\* unless its loop variable reaches a value v <= max with v + step = v in
\* double arithmetic, from where it never returns; the two sweeps of
\* TimingCharts terminate for every height and width.
C14_Termination ==
  /\ (pc = "sweep64" /\ StepPositive64) ~> (pc = "done" \/ Stuck64)
  /\ [](Stuck64 => [](pc # "done"))
  /\ (pc = "sweep64" /\ range64 \in ChartRanges64(sweepFn)) ~> (pc = "done")

\* a chart sweep that has returned after leaving max behind
C14_Witness ==
  /\ pc = "done"
  /\ range64 \in ChartRanges64(sweepFn)
  /\ range64.min # F64Zero
  /\ ~F64Le(cursor64, range64.max)

----------------------------------------------------------------------------
(* createSimulation, and generateRowSchedule called on the timing of its   *)
(* parameters                                                              *)

CreateFrameLengths == {Int2Num(3), Int2Num(4)}

CreateTimes == {Zero, Q(1, 20000), Q(7, 20000)}

\* either a call of createSimulation(params) or a call of
\* generateRowSchedule(params, calculateTiming(params), numFrames), the
\* last argument possibly omitted
InitCreate ==
  /\ \E h \in 0..MaxHeight, fll \in CreateFrameLengths,
        st \in {"undefined", "rolling", "global"}, et \in GenExposureTimes :
       params = [NoParams EXCEPT !.width = 4, !.height = h, !.frameLengthLines = fll,
                                 !.lineLengthPck = Int2Num(100),
                                 !.pixelClockMHz = Int2Num(1),
                                 !.lanes = Int2Num(2),
                                 !.shutterType = st, !.exposureTime = et]
  /\ \/ pc = "create" /\ numFrames = <<>>
     \/ pc = "generate" /\ numFrames \in GenNumFrames
  /\ timing = IF pc = "generate" THEN calculateTiming(params) ELSE NoTiming
  /\ timing64 = NoTiming64
  /\ schedule = <<>>
  /\ time \in CreateTimes
  /\ height = params.height
  /\ rowState = NoRowState
  /\ SweepIdle
  /\ PageIdle

\* one call of createSimulation(params)
CreateSimulation ==
  /\ pc = "create"
  /\ simulation' = createSimulation(params)
  /\ pc' = "created"
  /\ UNCHANGED <<params, timing, timing64, numFrames, schedule, time, height,
                 rowState, sweepVars, isPlaying, playbackSpeed, currentTime, vizVars,
                 csvVars>>

\* the resolver as the visualization calls it on a simulation:
\* getRowStateAtTime(rowSchedule, currentTime, height), with rowSchedule
\* and height taken from the simulation
ResolveSimulation ==
  /\ pc = "created"
  /\ schedule' = simulation.rowSchedule
  /\ rowState' = getRowStateAtTime(simulation.rowSchedule, time, simulation.mode.height)
  /\ pc' = "shown"
  /\ UNCHANGED <<params, timing, timing64, numFrames, time, height, sweepVars,
                 pageVars>>

NextCreate == CreateSimulation \/ Generate \/ Resolve \/ ResolveSimulation

SpecCreate == InitCreate /\ [][NextCreate]_vars

----------------------------------------------------------------------------
(* Properties of the generation window                                     *)

\* entries i of s are those of frames 0..n-1 of h rows each
CoversFrames(s, t, h, n) ==
  /\ Len(s) = n * h
  /\ \A f \in 0..(n - 1), r \in 0..(h - 1) :
       /\ s[r + f * h + 1].row = r + f * h
       /\ s[r + f * h + 1].readStartTime
            = NumAdd(NumMul(Int2Num(f), t.frameTime), NumMul(Int2Num(r), t.lineTime))

\* C16 as stated: generateRowSchedule called without numFrames returns
\* 3*height entries covering frames 0, 1 and 2, and so does the rowSchedule
\* built by createSimulation.
C16_DefaultThreeFrames ==
  /\ (Generated /\ numFrames = <<>>) => CoversFrames(schedule, timing, params.height, 3)
  /\ pc = "created" =>
       CoversFrames(simulation.rowSchedule, simulation.timing, params.height, 3)

\* C16, amended: generateRowSchedule called without numFrames returns
\* height entries covering frame 0 only (its default is 1 frame); the
\* rowSchedule built by createSimulation, which passes 3, has exactly
\* 3*height entries covering frames 0, 1 and 2.
C16_GenerationWindow ==
  /\ (Generated /\ numFrames = <<>>) => CoversFrames(schedule, timing, params.height, 1)
  /\ pc = "created" =>
       /\ simulation.timing = calculateTiming(params)
       /\ CoversFrames(simulation.rowSchedule, simulation.timing, params.height, 3)

C16_Witness ==
  /\ pc = "created"
  /\ params.height = 3
  /\ Len(simulation.rowSchedule) = 9
  /\ simulation.rowSchedule[9].row = 8
  /\ NumGt(simulation.rowSchedule[7].readStartTime, Zero)

----------------------------------------------------------------------------
(* Rows without a schedule entry                                           *)

\* C17: a row of 0..height-1 for which the schedule holds no entry is in
\* idleRows, and in neither readingRows nor exposedRows, whatever the
\* query time.
C17_MissingEntryIdle ==
  pc = "done" =>
    \A r \in 0..(height - 1) :
      ~HasEntry(schedule, r) =>
        /\ r \in Range(rowState.idleRows)
        /\ r \notin Range(rowState.readingRows)
        /\ r \notin Range(rowState.exposedRows)

\* three rows asked of a schedule of two entries, at a positive time
C17_Witness ==
  /\ pc = "done"
  /\ height = 3
  /\ Len(schedule) = 2
  /\ NumGt(time, Zero)
  /\ 2 \in Range(rowState.idleRows)

----------------------------------------------------------------------------
(* SensorVisualization: the component's effects                            *)

\* useRef(undefined) of animationFrameRef, useRef(null) of appRef and of
\* updateVisualizationRef: 0 stands for undefined/null, a positive number
\* for a frame handle or for the effect run that made the object

\* no call of getRowStateAtTime made by the step
NoCall == [made |-> FALSE, run |-> 0, time |-> Zero]

\* the component's mutable state, packed so that the effects of one commit
\* compose: the refs, the effect runs, the frame queue, whether the latest
\* animation effect returned a cleanup, and what the step passed to
\* getRowStateAtTime (call) and to onTimeUpdate (timeUpdate)
Viz ==
  [timeRef |-> timeRef, initializedRef |-> initializedRef,
   updateVisualizationRef |-> updateVisualizationRef,
   animationFrameRef |-> animationFrameRef, animCleanupSet |-> animCleanupSet,
   appRef |-> appRef, runs |-> runs, rafQueue |-> rafQueue,
   call |-> NoCall, timeUpdate |-> Undefined]

\* the state after the step: the component's variables take the fields of v,
\* and a call of getRowStateAtTime leaves its arguments and its result in
\* schedule, time, height and rowState
SetVizFields(v) ==
  /\ timeRef' = v.timeRef
  /\ initializedRef' = v.initializedRef
  /\ updateVisualizationRef' = v.updateVisualizationRef
  /\ animationFrameRef' = v.animationFrameRef
  /\ animCleanupSet' = v.animCleanupSet
  /\ appRef' = v.appRef
  /\ runs' = v.runs
  /\ rafQueue' = v.rafQueue
  /\ resolverCalled' = v.call.made
  /\ timeUpdate' = v.timeUpdate
  /\ currentTime' = IF v.timeUpdate = Undefined THEN currentTime ELSE v.timeUpdate
  /\ IF v.call.made
       THEN LET sim == v.runs[v.call.run].sim
            IN  /\ schedule' = sim.rowSchedule
                /\ time' = v.call.time
                /\ height' = sim.mode.height
                /\ rowState' = getRowStateAtTime(sim.rowSchedule, v.call.time,
                                                 sim.mode.height)
       ELSE UNCHANGED <<schedule, time, height, rowState>>

\* the step's result is computed once, then stored
SetViz(v) == \E w \in {v} : SetVizFields(w)

\* cancelAnimationFrame(h): the callback of handle h will not run
cancelAnimationFrame(v, h) == [v EXCEPT !.rafQueue = {c \in @ : c.handle # h}]

\* cancelPending forgetting the handle without cancelling its callback
cancelPending_keepsCallback(v) == [v EXCEPT !.animationFrameRef = 0]

\* if (animationFrameRef.current !== undefined) { cancelAnimationFrame(...);
\* animationFrameRef.current = undefined }
cancelPending(v) ==
  IF v.animationFrameRef # 0
    THEN [cancelAnimationFrame(v, v.animationFrameRef) EXCEPT !.animationFrameRef = 0]
    ELSE v

\* the handles a browser may return are those not in use; the only place
\* that remembers a handle is animationFrameRef
MaxHandles == 3

FreshHandle(v) ==
  CHOOSE h \in 1..MaxHandles :
    /\ h # v.animationFrameRef
    /\ \A c \in v.rafQueue : c.handle # h

\* animationFrameRef.current = requestAnimationFrame(animate), animate being
\* the closure c over isPlaying, playbackSpeed and timing.frameTime
requestAnimationFrame(v, c) ==
  LET h == FreshHandle(v)
  IN  [v EXCEPT !.rafQueue = @ \cup {[c EXCEPT !.handle = h]},
                !.animationFrameRef = h]

\* updateVisualization of effect run k, called with time t: it returns at
\* once unless its run is still mounted and the renderer initialised
updateVisualization(v, k, t) ==
  IF ~v.runs[k].isMounted \/ ~v.initializedRef
    THEN v
    ELSE [v EXCEPT !.call = [made |-> TRUE, run |-> k, time |-> t]]

\* if (updateVisualizationRef.current) updateVisualizationRef.current(t)
callUpdateRef(v, t) ==
  IF v.updateVisualizationRef # 0
    THEN updateVisualization(v, v.updateVisualizationRef, t)
    ELSE v

\* the body of the animation effect, run with the props of the render
animBody(v, playing, speed, frameTime) ==
  LET v1 == cancelPending(v)
  IN  IF ~v1.initializedRef \/ ~playing
        THEN [callUpdateRef(v1, v1.timeRef) EXCEPT !.animCleanupSet = FALSE]
        ELSE [requestAnimationFrame(v1, [handle |-> 0, isPlaying |-> playing,
                                         playbackSpeed |-> speed,
                                         frameTime |-> frameTime])
                EXCEPT !.animCleanupSet = TRUE]

\* the cleanup of the animation effect, if its latest run returned one
animCleanup(v) == IF v.animCleanupSet THEN cancelPending(v) ELSE v

\* the cleanup's treatment of the application of run k: its canvas is taken
\* off the page and it is destroyed "only if it was actually initialized"
\* (an application whose init() is pending has no canvas on the page, and
\* is destroyed by initPixi when its init() settles)
destroyApp(rs, k) ==
  IF rs[k].init = "done"
    THEN [rs EXCEPT ![k].attached = FALSE, ![k].destroyed = TRUE]
    ELSE rs

\* the cleanup of the initialisation effect, for its latest run
initCleanup(v) ==
  LET k  == Len(v.runs)
      v1 == cancelPending([v EXCEPT !.runs[k].isMounted = FALSE,
                                    !.initializedRef = FALSE,
                                    !.updateVisualizationRef = 0])
  IN  IF v1.appRef # 0
        THEN [v1 EXCEPT !.runs = destroyApp(@, v1.appRef), !.appRef = 0]
        ELSE v1

\* the body of the initialisation effect up to its await: a new run with a
\* new application, kept in appRef
initBody(v, sim) ==
  [v EXCEPT !.runs = Append(@, [isMounted |-> TRUE, sim |-> sim, init |-> "pending",
                                destroyed |-> FALSE, attached |-> FALSE]),
            !.appRef = Len(v.runs) + 1]

\* initPixi of run k after app.init() has resolved
initResolved(v, k) ==
  IF ~v.runs[k].isMounted
    THEN [v EXCEPT !.runs[k].init = "done", !.runs[k].destroyed = TRUE,
                   !.appRef = 0]
    ELSE updateVisualization([v EXCEPT !.runs[k].init = "done",
                                       !.runs[k].attached = TRUE,
                                       !.initializedRef = TRUE,
                                       !.updateVisualizationRef = k],
                             k, Zero)

\* initPixi of run k after app.init() has thrown: the catch block
initRejected(v, k) ==
  [v EXCEPT !.runs[k].init = "failed", !.runs[k].destroyed = TRUE,
            !.initializedRef = FALSE, !.appRef = 0]

\* (16 * playbackSpeed) / 1000: the seconds one tick adds to the cursor
tickIncrement(speed) ==
  CHOOSE r \in { NumDiv(scaled, Int2Num(1000)) :
                   scaled \in {NumMul(Int2Num(16), speed)} } : TRUE

\* timeRef.current += ...; if (timeRef.current >= timing.frameTime * 3)
\* timeRef.current = 0
advance(t, speed, frameTime) ==
  CHOOSE r \in
    UNION { { IF NumGe(t1, limit) THEN Zero ELSE t1 :
                t1 \in {NumAdd(t, increment)},
                limit \in {NumMul(frameTime, Int2Num(3))} } :
            increment \in {tickIncrement(speed)} } : TRUE

\* animate, the callback c of an animation frame
animate(v, c) ==
  IF ~v.initializedRef \/ ~c.isPlaying
    THEN [v EXCEPT !.animationFrameRef = 0]
    ELSE CHOOSE next \in
           { requestAnimationFrame(
               [callUpdateRef([v EXCEPT !.timeRef = t], t) EXCEPT !.timeUpdate = t], c) :
               t \in {advance(v.timeRef, c.playbackSpeed, c.frameTime)} } : TRUE

----------------------------------------------------------------------------
(* SensorVisualization inside SensorVizPage                                *)

\* effect runs of the initialisation effect in one behaviour
MaxRuns == 2

\* the positions of the playback-speed slider that are tried
PlaybackSpeeds == {Int2Num(1), Int2Num(5)}

\* sensors of 2 rows with frame times of 50 ms (two of them, differing in
\* exposure only) and of 10 ms
VizParams(fll, et) ==
  [NoParams EXCEPT !.width = 4, !.height = 2, !.frameLengthLines = Int2Num(fll),
                   !.lineLengthPck = Int2Num(500), !.pixelClockMHz = Int2Num(1),
                   !.lanes = Int2Num(2), !.shutterType = "rolling",
                   !.exposureTime = et]

VizParamSets == {VizParams(100, Q(1, 1000)), VizParams(100, Q(2, 1000)),
                 VizParams(20, Q(1, 1000))}

\* the first render and commit: both effects run, in source order
InitViz ==
  /\ pc = "viz"
  /\ params \in VizParamSets
  /\ timing = NoTiming
  /\ timing64 = NoTiming64
  /\ numFrames = <<>>
  /\ schedule = <<>>
  /\ time = Zero
  /\ height = 0
  /\ rowState = NoRowState
  /\ SweepIdle
  /\ simulation = createSimulation(params)
  /\ isPlaying = FALSE
  /\ playbackSpeed = Int2Num(1)
  /\ currentTime = Zero
  /\ mounted = TRUE
  /\ timeRef = Zero
  /\ initializedRef = FALSE
  /\ updateVisualizationRef = 0
  /\ animationFrameRef = 0
  /\ animCleanupSet = FALSE
  /\ appRef = 1
  /\ runs = <<[isMounted |-> TRUE, sim |-> simulation, init |-> "pending",
               destroyed |-> FALSE, attached |-> FALSE]>>
  /\ rafQueue = {}
  /\ resolverCalled = FALSE
  /\ timeUpdate = Undefined
  /\ csvLines = <<>>
  /\ modes = <<>>

vizFixed == <<pc, timing, timing64, numFrames, sweepVars, csvVars>>

\* onPlayPause: setIsPlaying(!isPlaying); the animation effect re-runs
TogglePlay ==
  /\ pc = "viz" /\ mounted
  /\ isPlaying' = ~isPlaying
  /\ SetViz(animBody(animCleanup(Viz), ~isPlaying, playbackSpeed,
                     simulation.timing.frameTime))
  /\ UNCHANGED <<vizFixed, params, simulation, playbackSpeed, mounted>>

\* onPlaybackSpeedChange(s); the animation effect re-runs
SetPlaybackSpeed ==
  /\ pc = "viz" /\ mounted
  /\ \E s \in PlaybackSpeeds \ {playbackSpeed} :
       /\ playbackSpeed' = s
       /\ SetViz(animBody(animCleanup(Viz), isPlaying, s,
                          simulation.timing.frameTime))
  /\ UNCHANGED <<vizFixed, params, simulation, isPlaying, mounted>>

\* handleParamsChange / handleModeSelect: a new params object, hence a new
\* simulation; the cleanups of the effects whose dependencies changed run
\* first, then their bodies
ChangeSimulation ==
  /\ pc = "viz" /\ mounted
  /\ Len(runs) < MaxRuns
  /\ \E p \in VizParamSets :
       LET sim == createSimulation(p)
           frameTimeChanged == sim.timing.frameTime # simulation.timing.frameTime
           v1 == initCleanup(Viz)
           v2 == IF frameTimeChanged THEN animCleanup(v1) ELSE v1
           v3 == initBody(v2, sim)
           v4 == IF frameTimeChanged
                   THEN animBody(v3, isPlaying, playbackSpeed, sim.timing.frameTime)
                   ELSE v3
       IN  /\ params' = p
           /\ simulation' = sim
           /\ SetViz(v4)
  /\ UNCHANGED <<vizFixed, isPlaying, playbackSpeed, mounted>>

\* app.init() of some run resolves
InitComplete ==
  /\ pc = "viz"
  /\ \E k \in 1..Len(runs) :
       /\ runs[k].init = "pending"
       /\ SetViz(initResolved(Viz, k))
  /\ UNCHANGED <<vizFixed, params, simulation, isPlaying, playbackSpeed, mounted>>

\* app.init() of some run throws
InitFail ==
  /\ pc = "viz"
  /\ \E k \in 1..Len(runs) :
       /\ runs[k].init = "pending"
       /\ SetViz(initRejected(Viz, k))
  /\ UNCHANGED <<vizFixed, params, simulation, isPlaying, playbackSpeed, mounted>>

\* the browser runs a pending animation-frame callback
Tick ==
  /\ pc = "viz"
  /\ \E c \in rafQueue :
       SetViz(animate([Viz EXCEPT !.rafQueue = @ \ {c}], c))
  /\ UNCHANGED <<vizFixed, params, simulation, isPlaying, playbackSpeed, mounted>>

\* the page goes away: the cleanups of both effects run
Unmount ==
  /\ pc = "viz" /\ mounted
  /\ mounted' = FALSE
  /\ SetViz(animCleanup(initCleanup(Viz)))
  /\ UNCHANGED <<vizFixed, params, simulation, isPlaying, playbackSpeed>>

NextViz ==
  \/ TogglePlay
  \/ SetPlaybackSpeed
  \/ ChangeSimulation
  \/ InitComplete
  \/ InitFail
  \/ Tick
  \/ Unmount

SpecViz == InitViz /\ [][NextViz]_vars

----------------------------------------------------------------------------
(* The animation cursor                                                    *)

\* 0 <= t < 3 * frameTime of the current simulation
CursorInWindow(t) ==
  /\ NumGe(t, Zero)
  /\ NumLt(t, NumMul(simulation.timing.frameTime, Int2Num(3)))

\* the cursor, and every time the latest step passed to getRowStateAtTime
\* or to onTimeUpdate, is in the window of the current simulation
CursorBounded ==
  /\ CursorInWindow(timeRef)
  /\ resolverCalled => CursorInWindow(time)
  /\ timeUpdate # Undefined => CursorInWindow(timeUpdate)

\* a tick (the only step that calls onTimeUpdate) that would reach or pass
\* 3*frameTime leaves the cursor at 0
TickWraps ==
  (/\ timeUpdate' # Undefined
   /\ NumGe(NumAdd(timeRef, tickIncrement(playbackSpeed)),
            NumMul(simulation.timing.frameTime, Int2Num(3))))
    => timeRef' = Zero

\* C18: in every reachable state of the mounted component, after any
\* sequence of ticks, play/pause toggles, playback-speed changes and
\* simulation changes, the cursor and every time passed to
\* getRowStateAtTime or onTimeUpdate satisfy 0 <= t < 3*frameTime of the
\* current simulation, and a tick that would reach or pass 3*frameTime
\* resets the cursor to 0.
C18_CursorInWindow ==
  /\ []((pc = "viz" /\ mounted) => CursorBounded)
  /\ [][TickWraps]_vars

----------------------------------------------------------------------------
(* csvParser.ts: strings                                                   *)

\* a string is the sequence of its characters; csvContent.split('\n') is a
\* sequence of lines and line.split(',') a sequence of fields, so a line is
\* kept as the sequence of its fields, none of which holds ',' or '\n'

IsSpace(c) == c \in {" ", "\t", "\r"}

IsDigit(c) == c \in {"0", "1", "2", "3", "4", "5", "6", "7", "8", "9"}

DigitVal(c) ==
  CASE c = "0" -> 0 [] c = "1" -> 1 [] c = "2" -> 2 [] c = "3" -> 3 [] c = "4" -> 4
    [] c = "5" -> 5 [] c = "6" -> 6 [] c = "7" -> 7 [] c = "8" -> 8 [] c = "9" -> 9

\* s without its first n characters
Drop(s, n) == SubSeq(s, n + 1, Len(s))

\* String.prototype.trim
trim(s) ==
  LET a == CHOOSE n \in 0..Len(s) :
             /\ \A i \in 1..n : IsSpace(s[i])
             /\ n = Len(s) \/ ~IsSpace(s[n + 1])
      r == Drop(s, a)
      b == CHOOSE n \in 0..Len(r) :
             /\ \A i \in (n + 1)..Len(r) : IsSpace(r[i])
             /\ n = 0 \/ ~IsSpace(r[n])
  IN  SubSeq(r, 1, b)

\* String.prototype.startsWith
startsWith(s, p) == Len(s) >= Len(p) /\ SubSeq(s, 1, Len(p)) = p

\* String.prototype.includes
includes(s, p) ==
  \E i \in 1..(Len(s) - Len(p) + 1) : SubSeq(s, i, i + Len(p) - 1) = p

\* line.includes(p) for a p without ',': p lies inside one field
lineIncludes(line, p) == \E f \in 1..Len(line) : includes(line[f], p)

\* the number of digits s starts with
LeadDigits(s) ==
  CHOOSE n \in 0..Len(s) :
    /\ \A i \in 1..n : IsDigit(s[i])
    /\ n = Len(s) \/ ~IsDigit(s[n + 1])

RECURSIVE DigitsValue(_)
DigitsValue(s) ==
  IF s = <<>> THEN 0
  ELSE DigitsValue(SubSeq(s, 1, Len(s) - 1)) * 10 + DigitVal(s[Len(s)])

RECURSIVE Pow10(_)
Pow10(k) == IF k = 0 THEN 1 ELSE 10 * Pow10(k - 1)

InfinityText == <<"I", "n", "f", "i", "n", "i", "t", "y">>

\* what String(undefined) reads
UndefinedText == <<"u", "n", "d", "e", "f", "i", "n", "e", "d">>

\* parseFloat, last stage: r is what follows the mantissa; an exponent is
\* read only if it has a digit. The value is sgn * mant * 10^(ex - nf).
parseExponent(sgn, mant, nf, r) ==
  LET hasE    == r # <<>> /\ r[1] \in {"e", "E"}
      esigned == Len(r) >= 2 /\ r[2] \in {"+", "-"}
      ebody   == IF esigned THEN Drop(r, 2) ELSE Drop(r, 1)
      ex      == IF ~hasE THEN 0
                 ELSE (IF esigned /\ r[2] = "-" THEN -1 ELSE 1)
                        * DigitsValue(SubSeq(ebody, 1, LeadDigits(ebody)))
  IN  IF ex - nf >= 0 THEN Q(sgn * mant * Pow10(ex - nf), 1)
      ELSE Q(sgn * mant, Pow10(nf - ex))

\* parseFloat, the mantissa: ni digits, then r, which may start with a
\* fraction; NaN when there is no digit at all
parseMantissa(sgn, intDigits, r) ==
  LET dot == r # <<>> /\ r[1] = "."
      nf  == IF dot THEN LeadDigits(Tail(r)) ELSE 0
  IN  IF Len(intDigits) + nf = 0 THEN NaN
      ELSE parseExponent(sgn, DigitsValue(intDigits \o SubSeq(r, 2, 1 + nf)), nf,
                         Drop(r, IF dot THEN 1 + nf ELSE 0))

\* parseFloat after the sign
parseUnsigned(sgn, body) ==
  IF startsWith(body, InfinityText) THEN InfOfSign(sgn)
  ELSE parseMantissa(sgn, SubSeq(body, 1, LeadDigits(body)),
                     Drop(body, LeadDigits(body)))

\* parseFloat after the leading white space
parseSigned(s) ==
  IF s # <<>> /\ s[1] \in {"+", "-"}
    THEN parseUnsigned(IF s[1] = "-" THEN -1 ELSE 1, Tail(s))
    ELSE parseUnsigned(1, s)

\* parseFloat: leading white space, an optional sign, then Infinity or the
\* longest decimal literal (digits, optional fraction, optional exponent);
\* NaN when there is no digit
parseFloat(t) == parseSigned(trim(t))

----------------------------------------------------------------------------
(* csvParser.ts: parseModeLine and parseImx258Csv                          *)

\* values[i] for a 0-based i; undefined reads as its text when parsed
valueAt(values, i) == IF i < Len(values) THEN values[i + 1] ELSE UndefinedText

RegText == <<"r", "e", "g">>

Mode1Text == <<"m", "o", "d", "e", "1">>

HdrText == <<"H", "D", "R">>

DefaultPixelClockMHz == Q(1296, 10)

\* parseModeLine(line, headers): <<>> for null, <<parsed>> otherwise
parseModeLine_keepsRegPrefix(line) ==
  LET values == [i \in 1..Len(line) |-> trim(line[i])]
  IN  IF Len(values) < 10 \/ values[1] = <<>>
        THEN <<>>
        ELSE LET w == OrElse(parseFloat(valueAt(values, 6)), Zero)
                 h == OrElse(parseFloat(valueAt(values, 7)), Zero)
             IN  IF values[1] = <<>> \/ w = Zero \/ h = Zero
                   THEN <<>>
                   ELSE << [reg |-> values[1], mode1 |-> values[2], mode2 |-> values[3],
                            width |-> w, height |-> h,
                            lanes |-> OrElse(parseFloat(valueAt(values, 8)), Int2Num(2)),
                            frameLengthLines |->
                              OrElse(parseFloat(valueAt(values, 50)), Zero),
                            lineLengthPck |->
                              OrElse(parseFloat(valueAt(values, 51)), Zero),
                            fps |-> OrElse(parseFloat(valueAt(values, 18)), Zero)] >>

parseModeLine(line) ==
  LET values == [i \in 1..Len(line) |-> trim(line[i])]
  IN  IF Len(values) < 10 \/ values[1] = <<>> \/ startsWith(values[1], RegText)
        THEN <<>>
        ELSE LET w == OrElse(parseFloat(valueAt(values, 6)), Zero)
                 h == OrElse(parseFloat(valueAt(values, 7)), Zero)
             IN  IF values[1] = <<>> \/ w = Zero \/ h = Zero
                   THEN <<>>
                   ELSE << [reg |-> values[1], mode1 |-> values[2], mode2 |-> values[3],
                            width |-> w, height |-> h,
                            lanes |-> OrElse(parseFloat(valueAt(values, 8)), Int2Num(2)),
                            frameLengthLines |->
                              OrElse(parseFloat(valueAt(values, 50)), Zero),
                            lineLengthPck |->
                              OrElse(parseFloat(valueAt(values, 51)), Zero),
                            fps |-> OrElse(parseFloat(valueAt(values, 18)), Zero)] >>

\* the pixel clock back-derived from a parsed line
derivedPixelClockMHz_always(parsed) ==
  NumDiv(NumMul(NumMul(parsed.lineLengthPck, parsed.fps), parsed.frameLengthLines),
         Int2Num(Million))

\* the pixel clock derived without the frame length
derivedPixelClockMHz_noFrameLength(parsed) ==
  IF /\ NumGt(parsed.lineLengthPck, Zero)
     /\ NumGt(parsed.fps, Zero)
     /\ NumGt(parsed.frameLengthLines, Zero)
    THEN NumDiv(NumMul(parsed.lineLengthPck, parsed.fps), Int2Num(Million))
    ELSE DefaultPixelClockMHz

derivedPixelClockMHz(parsed) ==
  IF /\ NumGt(parsed.lineLengthPck, Zero)
     /\ NumGt(parsed.fps, Zero)
     /\ NumGt(parsed.frameLengthLines, Zero)
    THEN NumDiv(NumMul(NumMul(parsed.lineLengthPck, parsed.fps),
                       parsed.frameLengthLines),
                Int2Num(Million))
    ELSE DefaultPixelClockMHz

\* the SensorMode built from a parsed line
modeOf(parsed) ==
  [id |-> parsed.reg,
   description |-> parsed.mode1 \o <<" ", "-", " ">> \o parsed.mode2,
   width |-> parsed.width,
   height |-> parsed.height,
   frameLengthLines |-> OrElse(parsed.frameLengthLines,
                               NumMul(parsed.height, Q(11, 10))),
   lineLengthPck |-> OrElse(parsed.lineLengthPck, NumMul(parsed.width, Q(12, 10))),
   pixelClockMHz |-> OrElse(derivedPixelClockMHz(parsed), DefaultPixelClockMHz),
   lanes |-> parsed.lanes,
   bitsPerPixel |-> Int2Num(10),
   shutterType |-> IF includes(parsed.mode1, HdrText) THEN "global" ELSE "rolling"]

\* the 0-based index of the first line that includes 'reg' and 'mode1',
\* or -1
findHeaderLine(lines) ==
  IF \E i \in 1..Len(lines) :
       lineIncludes(lines[i], RegText) /\ lineIncludes(lines[i], Mode1Text)
    THEN (CHOOSE i \in 1..Len(lines) :
            /\ lineIncludes(lines[i], RegText) /\ lineIncludes(lines[i], Mode1Text)
            /\ \A j \in 1..(i - 1) :
                 ~(lineIncludes(lines[j], RegText) /\ lineIncludes(lines[j], Mode1Text)))
         - 1
    ELSE -1

\* the loop over the data lines, from the 0-based index i on
RECURSIVE parseDataLines(_, _, _)
parseDataLines(lines, i, acc) ==
  IF i >= Len(lines) THEN acc
  ELSE LET parsed == parseModeLine(lines[i + 1])
       IN  IF /\ parsed # <<>>
              /\ NumGt(parsed[1].width, Zero)
              /\ NumGt(parsed[1].height, Zero)
             THEN parseDataLines(lines, i + 1, Append(acc, modeOf(parsed[1])))
             ELSE parseDataLines(lines, i + 1, acc)

\* parseImx258Csv(csvContent)
parseImx258Csv(lines) ==
  LET headerLineIndex == findHeaderLine(lines)
  IN  IF headerLineIndex = -1 THEN <<>>
      ELSE parseDataLines(lines, headerLineIndex + 1, <<>>)

----------------------------------------------------------------------------
(* CSV contents and the specification of the parser                        *)

\* data lines after the header in one content
MaxDataLines == 2

T(n) ==
  CASE n = 0 -> <<"0">>
    [] n = 3 -> <<"3">>
    [] n = 4 -> <<"4">>
    [] n = 30 -> <<"3", "0">>
    [] n = 3120 -> <<"3", "1", "2", "0">>
    [] n = 3224 -> <<"3", "2", "2", "4">>
    [] n = 4208 -> <<"4", "2", "0", "8">>
    [] n = 5352 -> <<"5", "3", "5", "2">>

\* a line of n fields: reg, mode1, mode2 in columns 0..2, width, height and
\* lanes in columns 6..8, fps in column 18, frame_length_lines and
\* line_length_pck in columns 50 and 51
CsvLine(n, reg, mode1, w, h, fps, fll, ll) ==
  [i \in 1..n |->
     CASE i = 1 -> reg
       [] i = 2 -> mode1
       [] i = 3 -> <<"a">>
       [] i = 7 -> w
       [] i = 8 -> h
       [] i = 9 -> <<"4">>
       [] i = 19 -> fps
       [] i = 51 -> fll
       [] i = 52 -> ll
       [] OTHER -> <<"x">>]

HeaderLine ==
  [i \in 1..52 |->
     CASE i = 1 -> RegText
       [] i = 2 -> Mode1Text
       [] OTHER -> <<"c">>]

\* a full line of a sensor of 4208 x 3120 at 30 fps
FullLine(reg, w, h) ==
  CsvLine(52, reg, <<"F">>, w, h, T(30), T(3224), T(5352))

\* a line of a sensor of 4 x 3 with the given timing columns
TimingLine(fps, fll, ll) ==
  CsvLine(52, <<"C">>, HdrText, T(4), T(3), fps, fll, ll)

\* lines that differ in what makes a line a mode or not
ValidityLines ==
  { FullLine(<<"A">>, T(4208), T(3120)),
    FullLine(<<" ", "B", " ">>, <<" ", "4", "2", "0", "8">>, <<"3", "e", "3">>),
    CsvLine(10, <<"D">>, <<"F">>, T(4), T(3), <<>>, <<>>, <<>>),
    CsvLine(9, <<"D">>, <<"F">>, T(4), T(3), <<>>, <<>>, <<>>),
    <<<<>>>>,
    FullLine(<<>>, T(4208), T(3120)),
    FullLine(<<" ">>, T(4208), T(3120)),
    FullLine(<<"r", "e", "g", "2">>, T(4208), T(3120)),
    FullLine(<<"E">>, <<"a", "b", "c">>, T(3120)),
    FullLine(<<"E">>, <<"1", "2", "p", "x">>, T(3120)),
    FullLine(<<"E">>, T(0), T(3120)),
    FullLine(<<"E">>, T(4208), <<"-", "5">>),
    FullLine(<<"E">>, T(4208), <<>>) }

\* lines that differ in the timing columns
TimingLines ==
  { TimingLine(T(30), T(3224), T(5352)),
    TimingLine(T(30), T(3224), <<"5", "3", "5", "2", "\r">>),
    TimingLine(<<>>, T(3224), T(5352)),
    TimingLine(T(0), T(3224), T(5352)),
    TimingLine(T(30), <<>>, T(5352)),
    TimingLine(T(30), T(3224), T(0)),
    TimingLine(T(30), <<"-", "1", "0", "0">>, T(5352)),
    TimingLine(<<"n", "/", "a">>, <<"n", "/", "a">>, <<"n", "/", "a">>) }

DataLines == ValidityLines \cup TimingLines

\* the lines before the header, if any
Preambles == {<<>>, <<FullLine(<<"P">>, T(4208), T(3120))>>}

RECURSIVE LinesUpTo(_)
LinesUpTo(n) ==
  IF n = 0 THEN {<<>>}
  ELSE LET shorter == LinesUpTo(n - 1)
       IN  shorter \cup { Append(c, l) : c \in shorter, l \in DataLines }

InitCsv ==
  /\ pc = "csv"
  /\ \E pre \in Preambles, hdr \in {<<>>, <<HeaderLine>>}, data \in LinesUpTo(MaxDataLines) :
       csvLines = pre \o hdr \o data
  /\ modes = <<>>
  /\ params = NoParams
  /\ timing = NoTiming
  /\ timing64 = NoTiming64
  /\ numFrames = <<>>
  /\ schedule = <<>>
  /\ time = Zero
  /\ height = 0
  /\ rowState = NoRowState
  /\ SweepIdle
  /\ simulation = NoSimulation
  /\ isPlaying = FALSE
  /\ playbackSpeed = Int2Num(1)
  /\ currentTime = Zero
  /\ mounted = FALSE
  /\ timeRef = Zero
  /\ initializedRef = FALSE
  /\ updateVisualizationRef = 0
  /\ animationFrameRef = 0
  /\ animCleanupSet = FALSE
  /\ appRef = 0
  /\ runs = <<>>
  /\ rafQueue = {}
  /\ resolverCalled = FALSE
  /\ timeUpdate = Undefined

\* one call of parseImx258Csv(csvContent)
ParseCsv ==
  /\ pc = "csv"
  /\ modes' = parseImx258Csv(csvLines)
  /\ pc' = "csv_done"
  /\ UNCHANGED <<params, timing, timing64, numFrames, schedule, time, height,
                 rowState, sweepVars, propVars, vizVars, csvLines>>

NextCsv == ParseCsv

SpecCsv == InitCsv /\ [][NextCsv]_vars

----------------------------------------------------------------------------
(* The skip policy of the parser                                           *)

\* the lines after the header line; none when there is no header line
DataLinesOf(lines) ==
  IF findHeaderLine(lines) = -1 THEN <<>> ELSE Drop(lines, findHeaderLine(lines) + 1)

\* the text is unparseable, zero or negative as a dimension
BadDimension(text) ==
  LET x == parseFloat(text)
  IN  IsNaN(x) \/ ~NumGt(x, Zero)

\* fewer than 10 fields, an empty reg field, or a bad width or height
OmittedAsStated(line) ==
  \/ Len(line) < 10
  \/ trim(line[1]) = <<>>
  \/ BadDimension(line[7])
  \/ BadDimension(line[8])

KeptAsStated(line) == ~OmittedAsStated(line)

\* a line whose reg field starts with 'reg' counts as a header line
KeptLine(line) == ~OmittedAsStated(line) /\ ~startsWith(trim(line[1]), RegText)

\* ms holds one mode per line of kept, in the same order
OneModePerLine(ms, kept) ==
  /\ Len(ms) = Len(kept)
  /\ \A j \in 1..Len(kept) :
       /\ ms[j].id = trim(kept[j][1])
       /\ ms[j].width = parseFloat(kept[j][7])
       /\ ms[j].height = parseFloat(kept[j][8])

\* every returned mode has a non-empty id and positive width and height
ModesWellFormed(ms) ==
  \A j \in 1..Len(ms) :
    /\ ms[j].id # <<>>
    /\ NumGt(ms[j].width, Zero)
    /\ NumGt(ms[j].height, Zero)

\* C19 as stated: parseImx258Csv returns, and its result holds exactly one
\* mode, in file order, for every data line after the header except those
\* with fewer than 10 fields, an empty reg field, or a width or height that
\* is unparseable, zero or negative; every returned mode has a non-empty
\* id, width > 0 and height > 0.
C19_OnlyStatedLinesOmitted ==
  pc = "csv_done" =>
    /\ OneModePerLine(modes, SelectSeq(DataLinesOf(csvLines), KeptAsStated))
    /\ ModesWellFormed(modes)

\* C19, amended: the omitted data lines are those with fewer than 10
\* fields, an empty reg field, a reg field that starts with 'reg', or a
\* width or height that is unparseable, zero or negative; every other data
\* line after the header yields exactly one mode, in file order, and every
\* returned mode has a non-empty id, width > 0 and height > 0.
C19_SkipPolicy ==
  pc = "csv_done" =>
    /\ OneModePerLine(modes, SelectSeq(DataLinesOf(csvLines), KeptLine))
    /\ ModesWellFormed(modes)

\* a line before the header, the header, a line whose reg field starts with
\* 'reg', then a line that is kept
C19_Witness ==
  /\ pc = "csv_done"
  /\ csvLines = <<FullLine(<<"P">>, T(4208), T(3120)), HeaderLine,
                  FullLine(<<"r", "e", "g", "2">>, T(4208), T(3120)),
                  FullLine(<<" ", "B", " ">>, <<" ", "4", "2", "0", "8">>,
                           <<"3", "e", "3">>)>>
  /\ Len(modes) = 1
  /\ modes[1].id = <<"B">>
  /\ modes[1].width = Int2Num(4208)
  /\ modes[1].height = Int2Num(3000)

----------------------------------------------------------------------------
(* Estimated and back-derived timing of a parsed mode                      *)

\* the number in 0-based column i of the line, NaN when absent or unparseable
ColumnNumber(line, i) == parseFloat(valueAt(line, i))

\* the mode m of the line has the timing values the columns determine
TimingFromColumns(m, line) ==
  LET fll == ColumnNumber(line, 50)
      ll  == ColumnNumber(line, 51)
      fps == ColumnNumber(line, 18)
  IN  /\ m.frameLengthLines =
           IF ~IsNaN(fll) /\ ~IsZero(fll) THEN fll ELSE NumMul(m.height, Q(11, 10))
      /\ m.lineLengthPck =
           IF ~IsNaN(ll) /\ ~IsZero(ll) THEN ll ELSE NumMul(m.width, Q(12, 10))
      /\ m.pixelClockMHz =
           IF NumGt(ll, Zero) /\ NumGt(fps, Zero) /\ NumGt(fll, Zero)
             THEN NumDiv(NumMul(NumMul(ll, fps), fll), Int2Num(Million))
             ELSE Q(1296, 10)

\* C20: for every returned mode, frameLengthLines is the value of column 50
\* when it parses to a non-zero number and height*1.1 otherwise,
\* lineLengthPck the value of column 51 when it parses to a non-zero number
\* and width*1.2 otherwise, and pixelClockMHz is
\* lineLengthPck*fps*frameLengthLines/1e6 when the three parsed columns are
\* positive and 129.6 otherwise.
C20_TimingDefaults ==
  pc = "csv_done" =>
    LET kept == SelectSeq(DataLinesOf(csvLines), KeptLine)
    IN  /\ Len(modes) = Len(kept)
        /\ \A j \in 1..Len(modes) : TimingFromColumns(modes[j], kept[j])

\* a mode whose frameLengthLines had to be estimated although fps and
\* lineLengthPck are there, after a mode with all three columns
C20_Witness ==
  /\ pc = "csv_done"
  /\ csvLines = <<HeaderLine, TimingLine(T(30), T(3224), T(5352)),
                  TimingLine(T(30), <<>>, T(5352))>>
  /\ Len(modes) = 2
  /\ modes[1].pixelClockMHz = Q(517645440, 1000000)
  /\ modes[2].frameLengthLines = Q(33, 10)
  /\ modes[2].lineLengthPck = Int2Num(5352)
  /\ modes[2].pixelClockMHz = Q(1296, 10)

----------------------------------------------------------------------------
(* Progress of the animation                                               *)

\* the browser runs every pending animation frame, and every app.init()
\* settles
SpecVizLive ==
  SpecViz /\ WF_vars(Tick) /\ WF_vars(InitComplete \/ InitFail)

\* the component is mounted and playing, and the renderer is initialised
PlayingInitialised == pc = "viz" /\ mounted /\ isPlaying /\ initializedRef

\* the latest step was a tick that advanced the cursor: it is the only step
\* that calls onTimeUpdate, and it re-evaluates getRowStateAtTime
Ticked == timeUpdate # Undefined /\ resolverCalled

\* C21: whenever the component is playing with its renderer initialised, a
\* tick that advances the cursor and re-evaluates getRowStateAtTime
\* eventually occurs, unless the user pauses, changes the simulation or
\* leaves first; also when play was pressed before the init finished and
\* after a simulation change made while playing.
C21_TicksWhilePlaying ==
  PlayingInitialised ~> (Ticked \/ ~PlayingInitialised)

----------------------------------------------------------------------------
(* The resolver against the three-frame schedule of a simulation           *)

\* the query time lies in the window [0, 3*frameTime) of the simulation
InSimulationWindow ==
  /\ NumGe(time, Zero)
  /\ NumLt(time, NumMul(simulation.timing.frameTime, Int2Num(3)))

\* some entry of physical row r (index r + k*height, k in 0..2) is being
\* read at the query time
ScheduledReading(r) ==
  \E k \in 0..2 :
    LET i == r + k * params.height
    IN  /\ HasEntry(simulation.rowSchedule, i)
        /\ NumLe(simulation.rowSchedule[i + 1].readStartTime, time)
        /\ NumLt(time, simulation.rowSchedule[i + 1].readEndTime)

\* C22: on the schedule built by createSimulation from params with
\* frameLengthLines >= height and lineTime > 0, and for every query time in
\* [0, 3*frameTime), a row is in readingRows exactly when one of its
\* entries in the schedule is being read at that time (so no row is
\* reading during vertical blanking).
C22_ResolverAgreesWithSchedule ==
  (/\ pc = "shown"
   /\ NumGe(params.frameLengthLines, Int2Num(params.height))
   /\ NumGt(simulation.timing.lineTime, Zero)
   /\ InSimulationWindow)
    => \A r \in 0..(params.height - 1) :
         (r \in Range(rowState.readingRows)) <=> ScheduledReading(r)

----------------------------------------------------------------------------
(* SensorVizPage: the parameters it holds, edited through SensorControls   *)
(* and replaced by preset modes.  The simulation of the page is            *)
(* createSimulation(params), recomputed from params at every render; it is *)
(* a function of params and is not stored here.                            *)

DEFAULT_PARAMS ==
  [width |-> 4208, height |-> 3120, frameLengthLines |-> Int2Num(3224),
   lineLengthPck |-> Int2Num(9016), pixelClockMHz |-> Q(1296, 10),
   lanes |-> Int2Num(2), bitsPerPixel |-> Int2Num(10), shutterType |-> "rolling",
   exposureTime |-> Q(16, 1000), exposureMarginLines |-> Int2Num(10),
   laneRateMbps |-> Int2Num(1000), receiverMaxFps |-> Undefined]

\* the integer held by a number of a mode (the widths and heights of the
\* contents below are integers)
IntOf(x) == x.n \div x.d

\* the object that handleModeSelect passes to setParams
paramsOfMode(mode, prev) ==
  [width |-> IntOf(mode.width), height |-> IntOf(mode.height),
   frameLengthLines |-> mode.frameLengthLines,
   lineLengthPck |-> mode.lineLengthPck,
   pixelClockMHz |-> mode.pixelClockMHz,
   lanes |-> mode.lanes,
   bitsPerPixel |-> OrElse(mode.bitsPerPixel, Int2Num(10)),
   shutterType |-> mode.shutterType,
   exposureTime |-> prev.exposureTime,
   exposureMarginLines |-> prev.exposureMarginLines,
   laneRateMbps |-> prev.laneRateMbps,
   receiverMaxFps |-> Undefined]

\* the object that the CSV load effect passes to setParams
paramsOfFirstMode(mode) ==
  paramsOfMode(mode, [exposureTime |-> Q(16, 1000),
                      exposureMarginLines |-> Int2Num(10),
                      laneRateMbps |-> Int2Num(1000)])

\* parseInt of the text of a number input: an integer, or NaN for an
\* empty input
NumberInputs == {NaN, Int2Num(5000)}

\* the lowest and the highest stop of a slider
SliderStops(min, max, step) == {min, min + step * ((max - min) \div step)}

\* the served file: absent, or one of two contents
PageContents ==
  { <<>>,
    <<HeaderLine, FullLine(<<"A">>, T(4208), T(3120))>>,
    <<HeaderLine, TimingLine(T(30), <<"-", "1", "0", "0">>, T(5352)),
      TimingLine(T(30), T(3224), T(0))>> }

InitPage ==
  /\ pc = "page_loading"
  /\ params = DEFAULT_PARAMS
  /\ csvLines \in PageContents
  /\ modes = <<>>
  /\ timing = NoTiming
  /\ timing64 = NoTiming64
  /\ numFrames = <<>>
  /\ schedule = <<>>
  /\ time = Zero
  /\ height = 0
  /\ rowState = NoRowState
  /\ SweepIdle
  /\ simulation = NoSimulation
  /\ isPlaying = FALSE
  /\ playbackSpeed = Int2Num(1)
  /\ currentTime = Zero
  /\ mounted = FALSE
  /\ timeRef = Zero
  /\ initializedRef = FALSE
  /\ updateVisualizationRef = 0
  /\ animationFrameRef = 0
  /\ animCleanupSet = FALSE
  /\ appRef = 0
  /\ runs = <<>>
  /\ rafQueue = {}
  /\ resolverCalled = FALSE
  /\ timeUpdate = Undefined

pageFixed == <<timing, timing64, numFrames, schedule, time, height, rowState,
               sweepVars, propVars, vizVars, csvLines>>

OnPage == pc \in {"page_loading", "page"}

\* the state that handleParamsChange(newParams) sets, newParams holding one
\* field:  { ...prev, ...newParams }
handleParamsChange(prev, field, value) == [prev EXCEPT ![field] = value]

\* the fetch of the CSV file resolves with content: the modes are stored
\* and the first of them, if any, replaces the parameters
LoadModes ==
  /\ pc = "page_loading"
  /\ csvLines # <<>>
  /\ modes' = parseImx258Csv(csvLines)
  /\ params' = IF Len(modes') > 0 THEN paramsOfFirstMode(modes'[1]) ELSE params
  /\ pc' = "page"
  /\ UNCHANGED pageFixed

\* the fetch fails or its response is not ok
LoadFails ==
  /\ pc = "page_loading"
  /\ csvLines = <<>>
  /\ pc' = "page"
  /\ UNCHANGED <<params, modes, pageFixed>>

EditWidth ==
  /\ OnPage
  /\ \E v \in NumberInputs :
       params' = handleParamsChange(params, "width", IntOf(OrElse(v, Zero)))
  /\ UNCHANGED <<pc, modes, pageFixed>>

EditHeight ==
  /\ OnPage
  /\ \E v \in NumberInputs :
       params' = handleParamsChange(params, "height", IntOf(OrElse(v, Zero)))
  /\ UNCHANGED <<pc, modes, pageFixed>>

SlideFrameLengthLines ==
  /\ OnPage
  /\ \E v \in SliderStops(params.height, params.height * 2, 1) :
       params' = handleParamsChange(params, "frameLengthLines", Int2Num(v))
  /\ UNCHANGED <<pc, modes, pageFixed>>

SlideLineLengthPck ==
  /\ OnPage
  /\ \E v \in SliderStops(params.width, params.width * 2, 10) :
       params' = handleParamsChange(params, "lineLengthPck", Int2Num(v))
  /\ UNCHANGED <<pc, modes, pageFixed>>

SlidePixelClock ==
  /\ OnPage
  /\ \E v \in SliderStops(10, 500, 1) :
       params' = handleParamsChange(params, "pixelClockMHz", Int2Num(v))
  /\ UNCHANGED <<pc, modes, pageFixed>>

EditLanes ==
  /\ OnPage
  /\ \E v \in {NaN, Int2Num(4)} :
       params' = handleParamsChange(params, "lanes", OrElse(v, Int2Num(1)))
  /\ UNCHANGED <<pc, modes, pageFixed>>

SwitchShutter ==
  /\ OnPage
  /\ \E checked \in BOOLEAN :
       params' = handleParamsChange(params, "shutterType",
                                    IF checked THEN "rolling" ELSE "global")
  /\ UNCHANGED <<pc, modes, pageFixed>>

\* the slider runs from 0.1 to 100 ms in steps of 0.1 ms and is disabled
\* when there is no exposure time
SlideExposure ==
  /\ OnPage
  /\ Truthy(params.exposureTime)
  /\ \E tenths \in SliderStops(1, 1000, 1) :
       params' = handleParamsChange(params, "exposureTime",
                                    NumDiv(Q(tenths, 10), Int2Num(1000)))
  /\ UNCHANGED <<pc, modes, pageFixed>>

\* a preset mode is chosen in the select
handleModeSelect ==
  /\ OnPage
  /\ \E i \in 1..Len(modes) : params' = paramsOfMode(modes[i], params)
  /\ UNCHANGED <<pc, modes, pageFixed>>

NextPage ==
  \/ LoadModes
  \/ LoadFails
  \/ EditWidth
  \/ EditHeight
  \/ SlideFrameLengthLines
  \/ SlideLineLengthPck
  \/ SlidePixelClock
  \/ EditLanes
  \/ SwitchShutter
  \/ SlideExposure
  \/ handleModeSelect

SpecPage == InitPage /\ [][NextPage]_vars

\* C23: the parameters held by the page always have frameLengthLines >=
\* height and lineLengthPck >= width, whatever controls were edited and
\* whatever preset modes were selected.
C23_ParamsPhysicallyValid ==
  OnPage =>
    /\ NumGe(params.frameLengthLines, Int2Num(params.height))
    /\ NumGe(params.lineLengthPck, Int2Num(params.width))

----------------------------------------------------------------------------
(* The lifecycle of the PIXI applications                                  *)

\* the component is unmounted and no app.init() is still pending
Settled == pc = "viz" /\ ~mounted /\ \A k \in 1..Len(runs) : runs[k].init # "pending"

\* every application created has been destroyed and is off the page
AllDestroyed == \A k \in 1..Len(runs) : runs[k].destroyed /\ ~runs[k].attached

\* this step settles the app.init() of a run that was cleaned up before
StaleInitSettles ==
  \E k \in 1..Len(runs) :
    /\ ~runs[k].isMounted
    /\ runs[k].init = "pending"
    /\ runs'[k].init # "pending"

\* C24: once the component is unmounted and every init has settled, every
\* application created has been destroyed and its canvas detached; and the
\* settling of a stale init leaves alone the reference to the application
\* of a newer effect run.
C24_AppsDestroyed ==
  /\ [](Settled => AllDestroyed)
  /\ [][(StaleInitSettles /\ appRef # 0) => appRef' = appRef]_vars

----------------------------------------------------------------------------
(* The animation frames that are pending                                   *)

\* C25: at most one animate callback is pending at any time, none after
\* unmount, and animationFrameRef holds the handle of the pending one.
C25_OnePendingFrame ==
  pc = "viz" =>
    /\ Cardinality(rafQueue) <= 1
    /\ ~mounted => rafQueue = {}
    /\ \A c \in rafQueue : animationFrameRef = c.handle

\* a callback is pending on the second effect run, after ticks
C25_Witness ==
  /\ pc = "viz"
  /\ Len(runs) = 2
  /\ Cardinality(rafQueue) = 1
  /\ animationFrameRef # 0
  /\ timeUpdate # Undefined
  /\ NumGt(timeRef, Zero)

----------------------------------------------------------------------------
(* The generator in binary64: the read times of generateRowSchedule as     *)
(* the doubles the program computes                                        *)

\* x < y for x >= 0 and y >= 0
F64Lt(x, y) == ~F64Le(y, x)

\* the read times of the entry pushed for (frame, row)
scheduleEntry64(p, t, frame, row) ==
  LET frameStartTime == F64Mul(F64FromInt(frame), t.frameTime)
      readStartTime  == F64Add(frameStartTime, F64Mul(F64FromInt(row), t.lineTime))
      readEndTime    == F64Add(readStartTime, t.lineTime)
  IN  [row           |-> row + frame * p.height,
       readStartTime |-> readStartTime,
       readEndTime   |-> readEndTime]

RECURSIVE rowLoop64(_, _, _, _, _)
rowLoop64(p, t, frame, row, acc) ==
  IF row < p.height
  THEN rowLoop64(p, t, frame, row + 1, Append(acc, scheduleEntry64(p, t, frame, row)))
  ELSE acc

RECURSIVE frameLoop64(_, _, _, _, _)
frameLoop64(p, t, n, frame, acc) ==
  IF frame < n
  THEN frameLoop64(p, t, n, frame + 1, rowLoop64(p, t, frame, 0, acc))
  ELSE acc

generateRowSchedule64(p, t, numFramesArg) ==
  LET n == IF numFramesArg = <<>> THEN DefaultNumFrames ELSE numFramesArg[1]
  IN  frameLoop64(p, t, n, 0, <<>>)

Gen64LineLengths == {Int2Num(100), Int2Num(5352), Int2Num(9016), Int2Num(300000)}

Gen64PixelClocks == {Int2Num(1), Q(1296, 10)}

\* a call of generateRowSchedule(params, calculateTiming(params), numFrames)
\* on a sensor without vertical blanking or with one line of it
InitGen64 ==
  /\ pc = "generate64"
  /\ \E h \in 1..MaxHeight, blank \in {0, 1}, ll \in Gen64LineLengths,
        pck \in Gen64PixelClocks :
       params = [NoParams EXCEPT !.width = 4, !.height = h,
                                 !.frameLengthLines = Int2Num(h + blank),
                                 !.lineLengthPck = ll, !.pixelClockMHz = pck,
                                 !.shutterType = "rolling"]
  /\ timing = NoTiming
  /\ timing64 = calculateTiming64(params)
  /\ numFrames \in { <<n>> : n \in 1..MaxFrames }
  /\ schedule = <<>>
  /\ time = Zero
  /\ height = params.height
  /\ rowState = NoRowState
  /\ SweepIdle
  /\ PageIdle

Generate64 ==
  /\ pc = "generate64"
  /\ schedule' = generateRowSchedule64(params, timing64, numFrames)
  /\ pc' = "generated64"
  /\ UNCHANGED <<params, timing, timing64, numFrames, time, height, rowState>>
  /\ UNCHANGED <<sweepVars, pageVars>>

NextGen64 == Generate64

SpecGen64 == InitGen64 /\ [][NextGen64]_vars

\* C26: in a schedule generated with lineTime > 0 and frameLengthLines >=
\* height, readStartTime is strictly increasing with the array index, across
\* frame boundaries too, and each entry's readEndTime is <= the next
\* entry's readStartTime (so no two entries are being read at one instant).
C26_OrderedNonOverlapping ==
  (/\ pc = "generated64"
   /\ NumGe(params.frameLengthLines, Int2Num(params.height))
   /\ F64Lt(F64Zero, timing64.lineTime))
    => \A i \in 1..(Len(schedule) - 1) :
         /\ F64Lt(schedule[i].readStartTime, schedule[i + 1].readStartTime)
         /\ F64Le(schedule[i].readEndTime, schedule[i + 1].readStartTime)

----------------------------------------------------------------------------
(* The bottleneck flag and the link-capped frame rate                      *)

\* every field that enters the link computation is positive, and no
\* receiver limit is given
PositiveLinkParams ==
  /\ params.width > 0 /\ params.height > 0
  /\ NumGt(bitsPerPixelOf(params), Zero)
  /\ NumGt(lanesOf(params), Zero)
  /\ NumGt(laneRateMbpsOf(params), Zero)
  /\ NumGt(params.pixelClockMHz, Zero)
  /\ NumGt(params.lineLengthPck, Zero)
  /\ NumGt(params.frameLengthLines, Zero)
  /\ params.receiverMaxFps = Undefined

\* a sensor of 20 x 50 at 10 bits and 98.04 fps on one lane of 1 Mbps: the
\* link is loaded to 98% of its capacity
NinetyEightPercent ==
  [NoParams EXCEPT !.width = 20, !.height = 50, !.frameLengthLines = Int2Num(102),
                   !.lineLengthPck = Int2Num(100), !.pixelClockMHz = Int2Num(1),
                   !.lanes = Int2Num(1), !.laneRateMbps = Int2Num(1)]

\* between 95% and 100% of capacity the flag is set although the sensor
\* rate is delivered
FlaggedButNotCapped(t) ==
  /\ NumGt(t.linkBandwidthMbps, NumMul(t.linkCapacityMbps, Q(95, 100)))
  /\ NumLt(t.linkBandwidthMbps, t.linkCapacityMbps)
  /\ t.linkBottlenecked
  /\ t.effectiveFps = t.sensorFps

\* C27: with positive parameters and no receiver limit, effectiveFps <
\* sensorFps implies linkBottlenecked (so an unset flag implies
\* effectiveFps = sensorFps); the converse fails between 95% and 100% of
\* capacity.
C27_FlagCoversCappedCases ==
  /\ (pc = "done" /\ PositiveLinkParams) =>
       /\ NumLt(timing.effectiveFps, timing.sensorFps) => timing.linkBottlenecked
       /\ ~timing.linkBottlenecked => timing.effectiveFps = timing.sensorFps
  /\ FlaggedButNotCapped(calculateTiming(NinetyEightPercent))

\* a link-capped frame rate, flagged
C27_Witness ==
  /\ pc = "done"
  /\ PositiveLinkParams
  /\ NumLt(timing.effectiveFps, timing.sensorFps)
  /\ timing.effectiveFps = LinkLimitedFps
  /\ timing.linkBottlenecked

----------------------------------------------------------------------------
(* The frame rate of a CSV row, through the parser and the timing          *)
(* calculator                                                              *)

\* calculateTiming in binary64 with the frame rate: sensorFps = 1 / frameTime
calculateTimingFps64(p) ==
  LET t == calculateTiming64(p)
  IN  [lineTime |-> t.lineTime, frameTime |-> t.frameTime,
       maxExposureTime |-> t.maxExposureTime,
       sensorFps |-> F64Div(F64FromInt(1), t.frameTime)]

RoundTripFps == {T(30), <<"1", "5">>, <<"6", "0">>, T(0), <<>>}

RoundTripFrameLengths == {T(3), T(4), <<"7">>, <<"-", "1", "0", "0">>}

RoundTripLineLengths == {T(4), <<"8">>, T(0)}

\* the timing columns of the rows tried: fps, frame_length_lines and
\* line_length_pck; the frame length 7 is tried with all three present
RoundTripRows ==
  { row \in RoundTripFps \X RoundTripFrameLengths \X RoundTripLineLengths :
      row[2] = <<"7">> => (row[1] \notin {T(0), <<>>} /\ row[3] # T(0)) }

\* a file of a header line and one row of a sensor of 4 x 3, with integers
\* in its timing columns
InitRoundTrip ==
  /\ pc = "csv"
  /\ \E row \in RoundTripRows :
       csvLines = <<HeaderLine, TimingLine(row[1], row[2], row[3])>>
  /\ modes = <<>>
  /\ params = NoParams
  /\ timing = NoTiming
  /\ timing64 = NoTiming64
  /\ numFrames = <<>>
  /\ schedule = <<>>
  /\ time = Zero
  /\ height = 0
  /\ rowState = NoRowState
  /\ SweepIdle
  /\ simulation = NoSimulation
  /\ isPlaying = FALSE
  /\ playbackSpeed = Int2Num(1)
  /\ currentTime = Zero
  /\ mounted = FALSE
  /\ timeRef = Zero
  /\ initializedRef = FALSE
  /\ updateVisualizationRef = 0
  /\ animationFrameRef = 0
  /\ animCleanupSet = FALSE
  /\ appRef = 0
  /\ runs = <<>>
  /\ rafQueue = {}
  /\ resolverCalled = FALSE
  /\ timeUpdate = Undefined

\* the first mode becomes the parameters of the page, whose simulation
\* calls calculateTiming on them
TimeFirstMode ==
  /\ pc = "csv_done"
  /\ Len(modes) > 0
  /\ params' = paramsOfFirstMode(modes[1])
  /\ timing' = calculateTiming(params')
  /\ timing64' = calculateTimingFps64(params')
  /\ pc' = "timed"
  /\ UNCHANGED <<numFrames, schedule, time, height, rowState, sweepVars, propVars,
                 vizVars, csvVars>>

NextRoundTrip == ParseCsv \/ TimeFirstMode

SpecRoundTrip == InitRoundTrip /\ [][NextRoundTrip]_vars

\* the row of the mode
RoundTripRow == csvLines[2]

\* the fps, frame_length_lines and line_length_pck columns of the row are
\* present and positive
TimingColumnsPositive ==
  /\ NumGt(ColumnNumber(RoundTripRow, 18), Zero)
  /\ NumGt(ColumnNumber(RoundTripRow, 50), Zero)
  /\ NumGt(ColumnNumber(RoundTripRow, 51), Zero)

\* the fps of the row as a double
RowFps64 == F64OfNum(ColumnNumber(RoundTripRow, 18))

\* 1 + 2^-50
OnePlusEps == F64Add(F64FromInt(1), F64Pow2(-50))

\* positive doubles that differ by a relative error of at most 2^-50
F64Close(x, y) ==
  /\ F64Le(x, F64Mul(y, OnePlusEps))
  /\ F64Le(y, F64Mul(x, OnePlusEps))

\* C28 as stated: for a mode parsed from a row whose fps, frame_length_lines
\* and line_length_pck are present and positive, the sensorFps that
\* calculateTiming returns on that mode equals the row's fps.
C28_FpsExactlyRecovered ==
  (pc = "timed" /\ TimingColumnsPositive) => timing64.sensorFps = RowFps64

\* C28, amended: for such a mode sensorFps equals the row's fps in real
\* arithmetic (frameTime = 1/fps), and the double that calculateTiming
\* returns is the row's fps up to the rounding of the seven operations in
\* between: a relative error of at most 2^-50.
C28_FpsRoundTrip ==
  (pc = "timed" /\ TimingColumnsPositive) =>
    /\ timing.sensorFps = ColumnNumber(RoundTripRow, 18)
    /\ timing.frameTime = NumDiv(Int2Num(1), ColumnNumber(RoundTripRow, 18))
    /\ F64Close(timing64.sensorFps, RowFps64)

\* a row whose frame rate comes back exactly in real arithmetic and off by
\* rounding as a double
C28_Witness ==
  /\ pc = "timed"
  /\ TimingColumnsPositive
  /\ timing.sensorFps = Int2Num(30)
  /\ timing64.sensorFps # RowFps64
  /\ F64Lt(timing64.sensorFps, RowFps64)

====
